---- MODULE Spec2Model ----
(***************************************************************************)
(* Model of libtrace's symbol-resolution layer (symbols::SymbolsResolver)  *)
(* and of the ETW parser front-end (parser::etw::ETWParser).               *)
(*                                                                         *)
(* base::Address is an unsigned 64-bit integer.  The model keeps the       *)
(* wrap-around of its arithmetic but scales the word down to AddrMod       *)
(* values, so that every address can be enumerated.                        *)
(***************************************************************************)
EXTENDS Integers, Sequences, FiniteSets, TLC

\* ------------------------------------------------------------------------
\* Bounds of the model.
\* ------------------------------------------------------------------------

\* Greatest number of images that are live at the same time (all pids).
MaxLive == 2

\* Greatest image size of the images loaded in the image-map specification.
MaxSize == 2

\* Greatest number of symbols the enumerator reports for one image.
MaxSymbols == 2

\* Greatest length of the part of a trace path that precedes its ending.
MaxStemLen == 2

\* Greatest number of records the reader emits in one Parse.
MaxRecords == 3

\* Greatest number of trace paths on the command line.
MaxArgs == 2

\* Greatest number of addresses in the Stack array of a StackWalk event.
MaxStack == 2

\* Greatest number of callbacks in the vector given to MultiCallback.
MaxCallbacks == 3

\* ------------------------------------------------------------------------
\* Program constants and types.
\* ------------------------------------------------------------------------

\* Number of values of base::Address (2^64 in the program, scaled down).
AddrMod == 8

Addresses == 0 .. (AddrMod - 1)

\* Unsigned addition and subtraction of base::Address.
AddAddress(a, b) == (a + b) % AddrMod

SubAddress(a, b) == (a - b + AddrMod) % AddrMod

\* The two processes of TEST(SymbolsResolver, FindImage).
kPid == 42

kOtherPid == 13

Pids == {kPid, kOtherPid}

\* Base addresses at which images are loaded.
Bases == {0, 1, 6}

\* symbols::Image: size, checksum, timestamp, filename.
MakeImage(size, checksum) ==
  [size |-> size, checksum |-> checksum, timestamp |-> 34,
   filename |-> "image_a.dll"]

\* The images loaded in the image-map specification.
Images == {MakeImage(s, 12) : s \in 0 .. MaxSize}

\* A default-constructed image, the target of a null pointer in the model.
NoImage == [size |-> 0, checksum |-> 0, timestamp |-> 0, filename |-> ""]

\* const Image* : nullptr, or a pointer to an image of the map.
Nullptr == [null |-> TRUE, image |-> NoImage]

PointerTo(image) == [null |-> FALSE, image |-> image]

\* Values the caller's image_base_address holds before a FindImage call.
PriorValues == {0, 7}

\* The images loaded in the symbol-resolution specification: they differ in
\* their checksum only, and are large enough to hold every symbol.
SymbolImages == {MakeImage(4, 12), MakeImage(4, 56)}

\* Base addresses at which they are loaded.
SymbolBases == {0, 1}

\* The images that the events given to CurrentState describe.
SinkImages == {MakeImage(3, 56), MakeImage(4, 56)}

\* symbols::Symbol: name, offset, size.
MakeSymbol(name, offset, size) ==
  [name |-> name, offset |-> offset, size |-> size]

\* A default-constructed Symbol, as the caller of ResolveSymbol passes it.
NoSymbol == MakeSymbol("", 0, 0)

\* The names of the symbols of an image, in the order of their enumeration.
SymbolNames == <<"f", "g", "h", "i">>

\* The <<offset, size>> pairs of the symbols of an image: symbols that
\* touch, nest, share an offset or are empty.
SymbolShapes == {<<0, 1>>, <<0, 2>>, <<1, 0>>, <<1, 1>>}

\* The addresses that are resolved: the addresses of the images and the
\* first address past them.
SymbolAddresses == 0 .. 5

\* What DbghelpWrapper::EnumerateSymbols can pass to its callback for an
\* image: any sequence of symbols for the image whose debug information is
\* found, nothing for the other one (the enumeration fails).
Enumerations(image) ==
  IF image.checksum = 12
  THEN UNION {
         {[i \in 1 .. n |-> MakeSymbol(SymbolNames[i], shape[i][1], shape[i][2])]
            : shape \in [1 .. n -> SymbolShapes]}
         : n \in 0 .. MaxSymbols}
  ELSE {<<>>}

\* A payload: the pointer (null, or to the bytes behind it) given to the
\* decoder.
NullPayload == [null |-> TRUE, bytes |-> <<>>]

PayloadOf(bytes) == [null |-> FALSE, bytes |-> bytes]

\* parser::Decoder(buffer, length): the cursor starts at the first byte.
Decoder(buffer, length) ==
  [buffer |-> buffer, length |-> length, position |-> 0, reads |-> {}]

\* No decoder has been constructed yet.
NoDecoder == Decoder(NullPayload, 0)

\* No call has been made on the decoder yet.
NoDecoderCall ==
  [op |-> "none", is_64_bit |-> FALSE, dcheck_is_on |-> FALSE,
   before |-> NoDecoder, fields_before |-> <<>>, peeked |-> {},
   event |-> [provider |-> "", version |-> 0, opcode |-> 0]]

VARIABLES
  pid_to_images,       \* SymbolsResolver::pid_to_images_
  image_base_address,  \* the out-parameter of the last call, if FindImage
  find_ret,            \* the value returned by the last call, if FindImage
  last_call,           \* the last call made on the resolver
  symbol_cache,        \* SymbolsResolver::symbol_cache_
  enum_calls,          \* number of EnumerateSymbols calls made for each image
  resolve_ret,         \* the value returned by the last call, if ResolveSymbol
  symbol,              \* the out-parameter of the last call, if ResolveSymbol
  traces_,             \* ETWParser::traces_
  add_ret,             \* the value returned by the last AddTraceFile
  last_add,            \* the last AddTraceFile call: its path and result
  prior_add,           \* the AddTraceFile call before the last one
  event_callback_,         \* ETWParser::event_callback_ is not null
  first_event_system_ts_,  \* ETWParser::first_event_system_ts_
  first_event_raw_ts_,     \* ETWParser::first_event_raw_ts_
  perf_period_,            \* ETWParser::perf_period_, a ratio
  parse_pc,            \* where Parse is: "idle" or "processing" (ProcessTrace)
  parse_exit,          \* the path by which the last Parse returned
  entry_ok,            \* the entry assertions held in every Parse so far
  trace_header,        \* the LogfileHeader OpenTrace gave to this Parse
  emitted,             \* the records the reader emitted in this Parse
  delivered,           \* the events the callback received in this Parse
  handles,             \* the local vector handles of Parse
  open_traces,         \* the trace handles open in the ETW API
  closed,              \* the arguments of the CloseTrace calls of the last
                       \* Parse, in call order
  main_pc,             \* where wmain is
  exit_code,           \* the value wmain returned
  args_added,          \* the number of arguments wmain has gone through
  last_event,          \* the event of the last CurrentState::OnEvent call
  prior_images,        \* the image map before the last OnEvent call
  prior_dropped,       \* the OnEvent call before the last one logged an
                       \* incomplete image event
  mc_callbacks,        \* the vector the function MultiCallback returned holds
  mc_args,             \* the arguments of its last invocation
  mc_index,            \* the position of its loop in the vector
  mc_calls,            \* the calls its last invocation made, in call order
  mc_pc,               \* where that function is
  dbg_initialized,     \* DbghelpWrapper::initialized_
  dbg_modules,         \* the base addresses of the modules loaded in the
                       \* DbgHelp session
  dbg_image,           \* the image of the last EnumerateSymbols call
  dbg_reported,        \* the symbols that call passed to its callback
  dbg_ret,             \* the return statement that call took and its value
  payload_decoder,     \* the parser::Decoder over the payload: buffer,
                       \* length, position, and the offsets read so far
  dec_fields,          \* the StructValue the payload decoders append to
  dec_ret,             \* what the last call on the decoder returned
  dec_call,            \* the last call: its name, its arguments, the decoder
                       \* before it and the offsets it looked up
  dec_operation,       \* DecodeRawETWKernelPayload's out-parameter operation
  dec_category         \* DecodeRawETWKernelPayload's out-parameter category

resolver_vars == <<pid_to_images, image_base_address, find_ret, last_call,
                   symbol_cache, enum_calls, resolve_ret, symbol>>

parser_vars == <<traces_, add_ret, last_add, prior_add>>

\* The fields of the parser that Parse and ProcessEvent write.
parse_fields == <<event_callback_, first_event_system_ts_,
                  first_event_raw_ts_, perf_period_>>

parse_vars == <<event_callback_, first_event_system_ts_,
                first_event_raw_ts_, perf_period_, parse_pc, parse_exit,
                entry_ok, trace_header, emitted, delivered, handles,
                open_traces, closed>>

non_resolver_vars == <<parser_vars, parse_vars>>

\* The variables of the callers of the parser and of the resolver.
\* The variables of base::MultiCallback.
callback_vars == <<mc_callbacks, mc_args, mc_index, mc_calls, mc_pc>>

\* The variables of symbols::win::DbghelpWrapper.
dbghelp_vars == <<dbg_initialized, dbg_modules, dbg_image, dbg_reported,
                  dbg_ret>>

\* The variables of the components that stand alone.
\* The variables of the payload decoders.
decoder_vars == <<payload_decoder, dec_fields, dec_ret, dec_call,
                  dec_operation, dec_category>>

aux_vars == <<callback_vars, dbghelp_vars, decoder_vars>>

main_vars == <<main_pc, exit_code, args_added, last_event, prior_images,
               prior_dropped>>

driver_vars == <<main_pc, exit_code, args_added, last_event, prior_images,
                 prior_dropped, aux_vars>>

vars == <<pid_to_images, image_base_address, find_ret, last_call,
          symbol_cache, enum_calls, resolve_ret, symbol,
          traces_, add_ret, last_add, prior_add,
          event_callback_, first_event_system_ts_, first_event_raw_ts_,
          perf_period_, parse_pc, parse_exit, entry_ok, trace_header,
          emitted, delivered, handles, open_traces, closed,
          main_pc, exit_code, args_added, last_event, prior_images,
          prior_dropped, aux_vars>>

\* ------------------------------------------------------------------------
\* std::map / std::unordered_map helpers.
\* ------------------------------------------------------------------------

EmptyMap == [k \in {} |-> NoImage]

\* map[key] = value
MapPut(map, key, value) ==
  [k \in (DOMAIN map) \cup {key} |-> IF k = key THEN value ELSE map[k]]

\* map.erase(key)
MapErase(map, key) == [k \in (DOMAIN map) \ {key} |-> map[k]]

RECURSIVE SortedKeys(_)
\* The keys of a std::map in iteration order (ascending).
SortedKeys(keys) ==
  IF keys = {} THEN <<>>
  ELSE LET least == CHOOSE k \in keys : \A other \in keys : k <= other
       IN <<least>> \o SortedKeys(keys \ {least})

\* std::map::lower_bound in the place of upper_bound: the first key that is
\* not less than address.
LowerBound(keys, address) ==
  LET notless == {i \in 1 .. Len(keys) : keys[i] >= address}
  IN IF notless = {} THEN Len(keys) + 1
     ELSE CHOOSE i \in notless : \A j \in notless : i <= j

\* std::map::upper_bound as an iterator position in 1 .. Len(keys) + 1:
\* the first key greater than address, Len(keys) + 1 being end().
UpperBound(keys, address) ==
  LET greater == {i \in 1 .. Len(keys) : keys[i] > address}
  IN IF greater = {} THEN Len(keys) + 1
     ELSE CHOOSE i \in greater : \A j \in greater : i <= j

\* The end test with > in the place of >= (a closed interval).
PastEndClosed(address, base, image) ==
  address > AddAddress(base, image.size)

\* The test of symbol.h:182 : the address is at or past the end of the image.
PastEnd(address, base, image) == address >= AddAddress(base, image.size)

\* FindImage storing the base of the predecessor image before the test of
\* its end.
FindImageStoresBeforeEndTest(images, pid, address, prior) ==
  LET NotFound == [ret |-> Nullptr, image_base_address |-> prior]
  IN IF pid \notin DOMAIN images THEN NotFound
     ELSE
       LET process_images == images[pid]
           keys == SortedKeys(DOMAIN process_images)
           image_it == UpperBound(keys, address)
       IN IF DOMAIN process_images = {} THEN NotFound
          ELSE IF image_it = 1 THEN NotFound
          ELSE IF PastEnd(address, keys[image_it - 1],
                          process_images[keys[image_it - 1]])
               THEN [ret |-> Nullptr,
                     image_base_address |-> keys[image_it - 1]]
          ELSE [ret |-> PointerTo(process_images[keys[image_it - 1]]),
                image_base_address |-> keys[image_it - 1]]

\* SymbolsResolver::FindImage.  prior is the value of *image_base_address
\* before the call; the result holds the value returned and the value of
\* *image_base_address after the call.
FindImage(images, pid, address, prior) ==
  LET NotFound == [ret |-> Nullptr, image_base_address |-> prior]
  IN IF pid \notin DOMAIN images THEN NotFound
     ELSE
       LET process_images == images[pid]
           keys == SortedKeys(DOMAIN process_images)
           end == Len(keys) + 1
           image_it == UpperBound(keys, address)
       IN IF DOMAIN process_images = {} THEN NotFound
          ELSE IF image_it = 1 THEN NotFound
          ELSE IF image_it - 1 = end THEN NotFound
          ELSE IF PastEnd(address, keys[image_it - 1],
                          process_images[keys[image_it - 1]])
               THEN NotFound
          ELSE [ret |-> PointerTo(process_images[keys[image_it - 1]]),
                image_base_address |-> keys[image_it - 1]]

\* ------------------------------------------------------------------------
\* State.
\* ------------------------------------------------------------------------

\* The (pid, base address) pairs that hold an image.
Live(images) ==
  UNION {{<<pid, base>> : base \in DOMAIN images[pid]} : pid \in DOMAIN images}

\* The entry e = <<pid, base>> holds an image.
IsLive(images, e) ==
  e[1] \in DOMAIN images /\ e[2] \in DOMAIN images[e[1]]

NoCall == [op |-> "none", pid |-> 0, address |-> 0, hit |-> FALSE]

\* No AddTraceFile call was made.
NoAdd == [called |-> FALSE, path |-> <<>>, ret |-> FALSE]

\* CurrentState::OnEvent was not called.
NoEvent == [header |-> <<>>, payload |-> <<>>]

\* A ratio of two integers: the value of a double.
Ratio(num, den) == [num |-> num, den |-> den]

\* perf_period_(0)
ZeroPeriod == Ratio(0, 1)

\* No trace was opened: EVENT_TRACE_LOGFILE after memset.
NoHeader == [StartTime |-> 0, PerfFreq |-> 0]

Init ==
  /\ pid_to_images = [p \in {} |-> EmptyMap]
  /\ image_base_address = 0
  /\ find_ret = Nullptr
  /\ last_call = NoCall
  /\ symbol_cache = [image \in {} |-> <<>>]
  /\ enum_calls = [image \in SymbolImages \cup SinkImages |-> 0]
  /\ resolve_ret = FALSE
  /\ symbol = NoSymbol
  /\ traces_ = <<>>
  /\ add_ret = FALSE
  /\ last_add = NoAdd
  /\ prior_add = NoAdd
  /\ handles = <<>>
  /\ open_traces = {}
  /\ closed = <<>>
  /\ event_callback_ = FALSE
  /\ first_event_system_ts_ = 0
  /\ first_event_raw_ts_ = 0
  /\ perf_period_ = ZeroPeriod
  /\ parse_pc = "idle"
  /\ parse_exit = "none"
  /\ entry_ok = TRUE
  /\ trace_header = NoHeader
  /\ emitted = <<>>
  /\ delivered = <<>>
  /\ main_pc = "start"
  /\ exit_code = 0
  /\ args_added = 0
  /\ last_event = NoEvent
  /\ prior_images = [p \in {} |-> EmptyMap]
  /\ prior_dropped = FALSE
  /\ mc_callbacks = <<>>
  /\ mc_args = <<>>
  /\ mc_index = 0
  /\ mc_calls = <<>>
  /\ mc_pc = "none"
  /\ dbg_initialized = FALSE
  /\ dbg_modules = {}
  /\ dbg_image = NoImage
  /\ dbg_reported = <<>>
  /\ dbg_ret = [path |-> "none", value |-> FALSE]
  /\ payload_decoder = NoDecoder
  /\ dec_fields = <<>>
  /\ dec_ret = "none"
  /\ dec_call = NoDecoderCall
  /\ dec_operation = ""
  /\ dec_category = ""

\* LoadImage storing a fresh map for the process instead of inserting into
\* the existing one.
LoadImageFreshMap(pid, base_address, image) ==
  /\ \/ <<pid, base_address>> \in Live(pid_to_images)
     \/ Cardinality(Live(pid_to_images)) < MaxLive
  /\ pid_to_images' =
       MapPut(pid_to_images, pid, MapPut(EmptyMap, base_address, image))
  /\ last_call' = [op |-> "LoadImage", pid |-> pid, address |-> base_address,
                   hit |-> <<pid, base_address>> \in Live(pid_to_images)]
  /\ image_base_address' = 0
  /\ find_ret' = Nullptr
  /\ resolve_ret' = FALSE
  /\ symbol' = NoSymbol
  /\ UNCHANGED <<symbol_cache, enum_calls>>
  /\ UNCHANGED non_resolver_vars

\* SymbolsResolver::LoadImage
LoadImage(pid, base_address, image) ==
  /\ \/ <<pid, base_address>> \in Live(pid_to_images)
     \/ Cardinality(Live(pid_to_images)) < MaxLive
  /\ pid_to_images' =
       MapPut(pid_to_images, pid,
              MapPut(IF pid \in DOMAIN pid_to_images
                     THEN pid_to_images[pid] ELSE EmptyMap,
                     base_address, image))
  /\ last_call' = [op |-> "LoadImage", pid |-> pid, address |-> base_address,
                   hit |-> <<pid, base_address>> \in Live(pid_to_images)]
  /\ image_base_address' = 0
  /\ find_ret' = Nullptr
  /\ resolve_ret' = FALSE
  /\ symbol' = NoSymbol
  /\ UNCHANGED <<symbol_cache, enum_calls>>
  /\ UNCHANGED non_resolver_vars

\* UnloadImage erasing every image of the process.
UnloadImageClear(pid, base_address) ==
  /\ pid_to_images' =
       IF pid \notin DOMAIN pid_to_images THEN pid_to_images
       ELSE MapPut(pid_to_images, pid, EmptyMap)
  /\ last_call' = [op |-> "UnloadImage", pid |-> pid,
                   address |-> base_address,
                   hit |-> <<pid, base_address>> \in Live(pid_to_images)]
  /\ image_base_address' = 0
  /\ find_ret' = Nullptr
  /\ resolve_ret' = FALSE
  /\ symbol' = NoSymbol
  /\ UNCHANGED <<symbol_cache, enum_calls>>
  /\ UNCHANGED non_resolver_vars

\* UnloadImage erasing the bucket of the process with its last image.
UnloadImageErasesEmptyBucket(pid, base_address) ==
  /\ pid_to_images' =
       IF pid \notin DOMAIN pid_to_images THEN pid_to_images
       ELSE IF DOMAIN pid_to_images[pid] \subseteq {base_address}
         THEN [p \in DOMAIN pid_to_images \ {pid} |-> pid_to_images[p]]
       ELSE MapPut(pid_to_images, pid,
                   MapErase(pid_to_images[pid], base_address))
  /\ last_call' = [op |-> "UnloadImage", pid |-> pid,
                   address |-> base_address,
                   hit |-> <<pid, base_address>> \in Live(pid_to_images)]
  /\ image_base_address' = 0
  /\ find_ret' = Nullptr
  /\ resolve_ret' = FALSE
  /\ symbol' = NoSymbol
  /\ UNCHANGED <<symbol_cache, enum_calls>>
  /\ UNCHANGED non_resolver_vars

\* SymbolsResolver::UnloadImage
UnloadImage(pid, base_address) ==
  /\ pid_to_images' =
       IF pid \notin DOMAIN pid_to_images THEN pid_to_images
       ELSE MapPut(pid_to_images, pid,
                   MapErase(pid_to_images[pid], base_address))
  /\ last_call' = [op |-> "UnloadImage", pid |-> pid,
                   address |-> base_address,
                   hit |-> <<pid, base_address>> \in Live(pid_to_images)]
  /\ image_base_address' = 0
  /\ find_ret' = Nullptr
  /\ resolve_ret' = FALSE
  /\ symbol' = NoSymbol
  /\ UNCHANGED <<symbol_cache, enum_calls>>
  /\ UNCHANGED non_resolver_vars

\* A call of FindImage by a caller whose image_base_address holds prior.
FindImageCall(pid, address, prior) ==
  LET result == FindImage(pid_to_images, pid, address, prior)
  IN /\ find_ret' = result.ret
     /\ image_base_address' = result.image_base_address
     /\ last_call' = [op |-> "FindImage", pid |-> pid, address |-> address,
                      hit |-> ~result.ret.null]
     /\ resolve_ret' = FALSE
     /\ symbol' = NoSymbol
     /\ UNCHANGED <<pid_to_images, symbol_cache, enum_calls>>
     /\ UNCHANGED non_resolver_vars

Next ==
  \/ \E pid \in Pids, base_address \in Bases, image \in Images :
       LoadImage(pid, base_address, image) /\ UNCHANGED driver_vars
  \/ \E pid \in Pids, base_address \in Bases :
       UnloadImage(pid, base_address) /\ UNCHANGED driver_vars
  \/ \E pid \in Pids, address \in Addresses, prior \in PriorValues :
       FindImageCall(pid, address, prior) /\ UNCHANGED driver_vars

Spec == Init /\ [][Next]_vars

\* ------------------------------------------------------------------------
\* Symbol resolution (build with USE_DBGHELP).
\* ------------------------------------------------------------------------

\* Symbol::operator< as std::sort uses it: by offset.
SymbolLess(a, b) == a.offset < b.offset

\* The outcomes of std::sort(image_symbols.begin(), image_symbols.end()):
\* the permutations of the sequence that are ordered by operator<.  The
\* sort is not stable, so symbols that compare equal end in any order.
SortOutcomes(image_symbols) ==
  LET n == Len(image_symbols)
      orders == {f \in [1 .. n -> 1 .. n] :
                   \A i \in 1 .. n, j \in 1 .. n : i # j => f[i] # f[j]}
      sequences == {[i \in 1 .. n |-> image_symbols[f[i]]] : f \in orders}
  IN {sorted \in sequences :
        \A i \in 1 .. n, j \in 1 .. n :
          i < j => ~SymbolLess(sorted[j], sorted[i])}

\* The comparison with <= in the place of <.
SymbolOffsetComparisonNotGreater(offset, sym) == offset <= sym.offset

\* SymbolOffsetComparison
SymbolOffsetComparison(offset, sym) == offset < sym.offset

\* std::upper_bound(image_symbols.begin(), image_symbols.end(), offset,
\* &SymbolOffsetComparison) as a position in 1 .. Len(image_symbols) + 1.
UpperBoundSymbols(image_symbols, offset) ==
  LET greater == {i \in 1 .. Len(image_symbols) :
                    SymbolOffsetComparison(offset, image_symbols[i])}
  IN IF greater = {} THEN Len(image_symbols) + 1
     ELSE CHOOSE i \in greater : \A j \in greater : i <= j

\* The end test with >= in the place of > (a half-open range).
SymbolPastEndHalfOpen(offset, sym) ==
  offset >= AddAddress(sym.offset, sym.size)

\* The test of symbol.h:150 : the offset is past the end of the symbol.
SymbolPastEnd(offset, sym) == offset > AddAddress(sym.offset, sym.size)

\* The second half of ResolveSymbol (symbol.h:138-155): the search of
\* offset in the symbols of the image.
ResolveOffset(image_symbols, offset) ==
  LET it == UpperBoundSymbols(image_symbols, offset)
      Fail == [ret |-> FALSE, symbol |-> NoSymbol]
  IN IF it = 1 THEN Fail
     ELSE IF it - 1 = Len(image_symbols) + 1 THEN Fail
     ELSE IF SymbolPastEnd(offset, image_symbols[it - 1]) THEN Fail
     ELSE [ret |-> TRUE, symbol |-> image_symbols[it - 1]]

\* Equality of two images, the key equality of symbol_cache_: all four
\* fields are equal.
SameImage(a, b) ==
  /\ a.size = b.size
  /\ a.checksum = b.checksum
  /\ a.timestamp = b.timestamp
  /\ a.filename = b.filename

\* symbol_cache_.find(image) != symbol_cache_.end()
IsCached(image) == \E key \in DOMAIN symbol_cache : SameImage(key, image)

\* GetImageSymbols enumerating again when the cached table is empty.
GetImageSymbolsRetryEmpty(image) ==
  IF IsCached(image) /\ symbol_cache[image] # <<>>
  THEN UNCHANGED <<symbol_cache, enum_calls>>
  ELSE \E enumerated \in Enumerations(image) :
         \E sorted \in SortOutcomes(enumerated) :
           /\ symbol_cache' = MapPut(symbol_cache, image, sorted)
           /\ enum_calls' = [enum_calls EXCEPT ![image] = @ + 1]

\* SymbolsResolver::GetImageSymbols.  enumerated is what EnumerateSymbols
\* appends to the new table and sorted what std::sort leaves in it.
GetImageSymbols(image) ==
  IF IsCached(image)
  THEN UNCHANGED <<symbol_cache, enum_calls>>
  ELSE \E enumerated \in Enumerations(image) :
         \E sorted \in SortOutcomes(enumerated) :
           /\ symbol_cache' = MapPut(symbol_cache, image, sorted)
           /\ enum_calls' = [enum_calls EXCEPT ![image] = @ + 1]

\* SymbolsResolver::ResolveSymbol
ResolveSymbol(pid, address) ==
  LET found == FindImage(pid_to_images, pid, address, 0)
  IN /\ find_ret' = found.ret
     /\ image_base_address' = found.image_base_address
     /\ UNCHANGED pid_to_images
     /\ UNCHANGED non_resolver_vars
     /\ IF found.ret.null
        THEN /\ resolve_ret' = FALSE
             /\ symbol' = NoSymbol
             /\ last_call' = [op |-> "ResolveSymbol", pid |-> pid,
                              address |-> address, hit |-> FALSE]
             /\ UNCHANGED <<symbol_cache, enum_calls>>
        ELSE /\ GetImageSymbols(found.ret.image)
             /\ LET result ==
                      ResolveOffset(
                        symbol_cache'[found.ret.image],
                        SubAddress(address, found.image_base_address))
                IN /\ resolve_ret' = result.ret
                   /\ symbol' = result.symbol
             /\ last_call' = [op |-> "ResolveSymbol", pid |-> pid,
                              address |-> address,
                              hit |-> IsCached(found.ret.image)]

\* The processes of this specification hold one image at a time (image maps
\* of several images are the subject of Spec).
NextSymbols ==
  \/ \E pid \in Pids, base_address \in SymbolBases, image \in SymbolImages :
       /\ Live(pid_to_images) \subseteq {<<pid, base_address>>}
       /\ LoadImage(pid, base_address, image)
       /\ UNCHANGED driver_vars
  \/ \E pid \in Pids, base_address \in SymbolBases :
       UnloadImage(pid, base_address) /\ UNCHANGED driver_vars
  \/ \E pid \in Pids, address \in SymbolAddresses :
       ResolveSymbol(pid, address) /\ UNCHANGED driver_vars

SpecSymbols == Init /\ [][NextSymbols]_vars

\* ------------------------------------------------------------------------
\* ETWParser: the trace files of a parser.
\* ------------------------------------------------------------------------

\* A path is the sequence of its characters.  L".etl"
kEtlSuffix == <<".", "e", "t", "l">>

\* The endings of the paths given to AddTraceFile.
PathEndings ==
  {<<>>, kEtlSuffix, <<".", "e", "t">>, <<"e", "t", "l">>,
   <<".", "e", "t", "l", "a">>}

\* The characters that precede the ending.
StemChars == {"a", "."}

\* The paths given to AddTraceFile.
Paths ==
  UNION {{stem \o ending : stem \in [1 .. n -> StemChars],
                           ending \in PathEndings}
         : n \in 0 .. MaxStemLen}

\* base::WStringEndsWith(str, suffix)
WStringEndsWith(str, suffix) ==
  /\ Len(str) >= Len(suffix)
  /\ SubSeq(str, Len(str) - Len(suffix) + 1, Len(str)) = suffix

\* AddTraceFile accepting a trace file when one is held already.
AddTraceFileAppend(path) ==
  LET ret == WStringEndsWith(path, kEtlSuffix)
  IN /\ traces_' = IF ret THEN Append(traces_, path) ELSE traces_
     /\ add_ret' = ret
     /\ last_add' = [called |-> TRUE, path |-> path, ret |-> ret]
     /\ prior_add' = last_add
     /\ trace_header' = NoHeader
     /\ emitted' = <<>>
     /\ delivered' = <<>>
     /\ UNCHANGED <<parse_fields, parse_pc, parse_exit, entry_ok>>
     /\ UNCHANGED <<handles, open_traces, closed>>
     /\ UNCHANGED resolver_vars

\* ETWParser::AddTraceFile
AddTraceFile(path) ==
  LET ret == IF traces_ # <<>> THEN FALSE
             ELSE IF ~WStringEndsWith(path, kEtlSuffix) THEN FALSE
             ELSE TRUE
  IN /\ traces_' = IF ret THEN Append(traces_, path) ELSE traces_
     /\ add_ret' = ret
     /\ last_add' = [called |-> TRUE, path |-> path, ret |-> ret]
     /\ prior_add' = last_add
     /\ trace_header' = NoHeader
     /\ emitted' = <<>>
     /\ delivered' = <<>>
     /\ UNCHANGED <<parse_fields, parse_pc, parse_exit, entry_ok>>
     /\ UNCHANGED <<handles, open_traces, closed>>
     /\ UNCHANGED resolver_vars

NextParser ==
  \E path \in Paths : AddTraceFile(path) /\ UNCHANGED driver_vars

SpecParser == Init /\ [][NextParser]_vars

\* ------------------------------------------------------------------------
\* ETWParser::Parse and ETWParser::ProcessEvent.
\* ------------------------------------------------------------------------

\* const double kPerfPeriodMultiplier = 10000000.0
kPerfPeriodMultiplier == 10000000

\* trace.LogfileHeader as OpenTrace fills it: periods of 1 and of 2.5.
TraceHeaders ==
  [StartTime : {100, 200}, PerfFreq : {10000000, 4000000}]

\* pevent->EventHeader.TimeStamp.QuadPart
RawTimestamps == {0, 2, 3}

\* The records ProcessTrace hands to ProcessEvent.  decodes is the value
\* DecodeRawETWPayload returns for the record.
Records ==
  [raw_ts : RawTimestamps, decodes : BOOLEAN, process_id : Pids]

\* The paths given to AddTraceFile before a Parse.
ParsePaths == {<<"a">> \o kEtlSuffix, <<"a">>}

\* The header fields ProcessEvent generates for a record.
Header(record) ==
  [operation |-> "Load", category |-> "Image",
   process_id |-> record.process_id]

\* static_cast<uint64_t>((raw_ts - first_event_raw_ts_) * perf_period_)
\* added to first_event_system_ts_.
SystemTimestamp(system_ts, first_raw_ts, period, raw_ts) ==
  system_ts + (((raw_ts - first_raw_ts) * period.num) \div period.den)

\* "Reset the parser" at the end of Parse.
ResetParser ==
  /\ event_callback_' = FALSE
  /\ first_event_system_ts_' = 0
  /\ first_event_raw_ts_' = 0
  /\ perf_period_' = ZeroPeriod

\* The handles OpenTrace can return.
TraceHandles == {"th1", "th2"}

\* The DCHECKs at the entry of Parse.
EntryAssertions ==
  /\ ~event_callback_
  /\ first_event_system_ts_ = 0
  /\ first_event_raw_ts_ = 0
  /\ perf_period_ = ZeroPeriod
  /\ Len(traces_) <= 1

\* Parse returning as soon as OpenTrace fails, without resetting the parser.
ParseReturnOnOpenFailure ==
  /\ parse_pc = "idle"
  /\ entry_ok' = (entry_ok /\ EntryAssertions)
  /\ emitted' = <<>>
  /\ delivered' = <<>>
  /\ add_ret' = FALSE
  /\ last_add' = NoAdd
  /\ prior_add' = NoAdd
  /\ UNCHANGED <<traces_, resolver_vars>>
  /\ IF traces_ = <<>>
     THEN /\ ResetParser
          /\ parse_pc' = "idle"
          /\ parse_exit' = "no source"
          /\ trace_header' = NoHeader
          /\ closed' = <<>>
          /\ UNCHANGED <<handles, open_traces>>
     ELSE \/ /\ event_callback_' = TRUE
             /\ UNCHANGED <<first_event_system_ts_, first_event_raw_ts_,
                            perf_period_>>
             /\ parse_pc' = "idle"
             /\ parse_exit' = "OpenTrace failed"
             /\ trace_header' = NoHeader
             /\ closed' = <<>>
             /\ UNCHANGED <<handles, open_traces>>
          \/ \E header \in TraceHeaders :
               /\ event_callback_' = TRUE
               /\ first_event_system_ts_' = header.StartTime
               /\ perf_period_' =
                    Ratio(kPerfPeriodMultiplier, header.PerfFreq)
               /\ UNCHANGED first_event_raw_ts_
               /\ parse_pc' = "processing"
               /\ parse_exit' = "none"
               /\ trace_header' = header
               /\ \E th \in TraceHandles \ open_traces :
                    /\ handles' = Append(handles, th)
                    /\ open_traces' = open_traces \cup {th}
               /\ closed' = <<>>

\* ETWParser::Parse, from its entry to its return or, when a trace was
\* opened, to the call of ProcessTrace.  OpenTrace fails or fills the
\* header of the trace.
Parse ==
  /\ parse_pc = "idle"
  /\ entry_ok' = (entry_ok /\ EntryAssertions)
  /\ emitted' = <<>>
  /\ delivered' = <<>>
  /\ add_ret' = FALSE
  /\ last_add' = NoAdd
  /\ prior_add' = NoAdd
  /\ UNCHANGED <<traces_, resolver_vars>>
  /\ IF traces_ = <<>>
     THEN /\ ResetParser
          /\ parse_pc' = "idle"
          /\ parse_exit' = "no source"
          /\ trace_header' = NoHeader
          /\ closed' = <<>>
          /\ UNCHANGED <<handles, open_traces>>
     ELSE \/ /\ ResetParser
             /\ parse_pc' = "idle"
             /\ parse_exit' = "OpenTrace failed"
             /\ trace_header' = NoHeader
             /\ closed' = <<>>
             /\ UNCHANGED <<handles, open_traces>>
          \/ \E header \in TraceHeaders :
               /\ event_callback_' = TRUE
               /\ first_event_system_ts_' = header.StartTime
               /\ perf_period_' =
                    Ratio(kPerfPeriodMultiplier, header.PerfFreq)
               /\ UNCHANGED first_event_raw_ts_
               /\ parse_pc' = "processing"
               /\ parse_exit' = "none"
               /\ trace_header' = header
               /\ \E th \in TraceHandles \ open_traces :
                    /\ handles' = Append(handles, th)
                    /\ open_traces' = open_traces \cup {th}
               /\ closed' = <<>>

\* first_event_raw_ts_ recorded only for a record that decodes.
FirstEventRawTsOfDecoded(first_raw_ts, record) ==
  IF first_raw_ts = 0 /\ record.decodes THEN record.raw_ts
  ELSE first_raw_ts

\* "Record the timestamp of the first event": first_event_raw_ts_ after
\* ProcessEvent has seen the record.
FirstEventRawTs(first_raw_ts, record) ==
  IF first_raw_ts = 0 THEN record.raw_ts ELSE first_raw_ts

\* A callback that receives the event before the event of the record that
\* precedes it.
InvokeCallbackLate(events, event) ==
  IF events # <<>> /\ events[Len(events)].of_record = event.of_record - 1
  THEN SubSeq(events, 1, Len(events) - 1) \o <<event, events[Len(events)]>>
  ELSE Append(events, event)

\* (*event_parser->event_callback_)(event): the events the callback has
\* received when the call returns.
InvokeCallback(events, event) == Append(events, event)

\* !DecodeRawETWPayload(...): the record is dropped.
DecodeFailed(record) == ~record.decodes

\* ETWParser::ProcessEvent, the callback of its record included.  The
\* reader emits the records of a trace in the order of their timestamps.
\* of_record is the position of the record among the emitted ones.
ProcessEvent(record) ==
  /\ parse_pc = "processing"
  /\ Len(emitted) < MaxRecords
  /\ emitted # <<>> => emitted[Len(emitted)].raw_ts <= record.raw_ts
  /\ emitted' = Append(emitted, record)
  /\ first_event_raw_ts_' = FirstEventRawTs(first_event_raw_ts_, record)
  /\ delivered' =
       IF DecodeFailed(record) THEN delivered
       ELSE InvokeCallback(
              delivered,
              [timestamp |->
                 SystemTimestamp(first_event_system_ts_,
                                 first_event_raw_ts_',
                                 perf_period_, record.raw_ts),
               header |-> Header(record),
               of_record |-> Len(emitted')])
  /\ UNCHANGED <<event_callback_, first_event_system_ts_, perf_period_,
                 parse_pc, parse_exit, entry_ok, trace_header>>
  /\ UNCHANGED <<handles, open_traces, closed>>
  /\ UNCHANGED <<parser_vars, resolver_vars>>

\* ERROR_SUCCESS and another status of ProcessTrace.
ProcessTraceStatus == {0, 5}

\* The elements of a sequence.
Range(seq) == {seq[i] : i \in 1 .. Len(seq)}

\* Parse skipping the CloseTrace loop when ProcessTrace reports an error.
ParseReturnKeepsHandlesOnError(status) ==
  /\ parse_pc = "processing"
  /\ ResetParser
  /\ parse_pc' = "idle"
  /\ parse_exit' = IF status = 0 THEN "normal end"
                   ELSE "ProcessTrace failed"
  /\ closed' = IF status = 0 THEN handles ELSE <<>>
  /\ open_traces' = IF status = 0 THEN open_traces \ Range(handles)
                    ELSE open_traces
  /\ handles' = <<>>
  /\ UNCHANGED <<entry_ok, trace_header, emitted, delivered>>
  /\ UNCHANGED <<parser_vars, resolver_vars>>

\* ETWParser::Parse, from the return of ProcessTrace to its own return: it
\* calls CloseTrace on every element of handles.
ParseReturn(status) ==
  /\ parse_pc = "processing"
  /\ ResetParser
  /\ parse_pc' = "idle"
  /\ parse_exit' = IF status = 0 THEN "normal end"
                   ELSE "ProcessTrace failed"
  /\ closed' = handles
  /\ open_traces' = open_traces \ Range(handles)
  /\ handles' = <<>>
  /\ UNCHANGED <<entry_ok, trace_header, emitted, delivered>>
  /\ UNCHANGED <<parser_vars, resolver_vars>>

NextParse ==
  \/ \E path \in ParsePaths :
       parse_pc = "idle" /\ AddTraceFile(path) /\ UNCHANGED driver_vars
  \/ Parse /\ UNCHANGED driver_vars
  \/ \E record \in Records : ProcessEvent(record) /\ UNCHANGED driver_vars
  \/ \E status \in ProcessTraceStatus :
       ParseReturn(status) /\ UNCHANGED driver_vars

SpecParse == Init /\ [][NextParse]_vars

\* ------------------------------------------------------------------------
\* traceinspect: wmain.
\* ------------------------------------------------------------------------

\* parser::Parser::AddTraceFile with the one registered ETWParser.
ParserAddTraceFile(path) == AddTraceFile(path)

\* parser::Parser::Parse with the one registered ETWParser.
ParserParse == Parse

\* One turn of the loop of wmain over argv[1 .. argc - 1].
WmainAddTraceFile(path) ==
  /\ main_pc \in {"start", "adding"}
  /\ args_added < MaxArgs
  /\ ParserAddTraceFile(path)
  /\ args_added' = args_added + 1
  /\ IF add_ret'
     THEN main_pc' = "adding" /\ UNCHANGED exit_code
     ELSE main_pc' = "exited" /\ exit_code' = -1
  /\ UNCHANGED <<last_event, prior_images, prior_dropped>>
  /\ UNCHANGED aux_vars

\* wmain, from the end of its loop to the return of parser.Parse or, when a
\* trace was opened, to the call of ProcessTrace.
WmainParse ==
  /\ main_pc \in {"start", "adding"}
  /\ ParserParse
  /\ IF parse_pc' = "processing"
     THEN main_pc' = "parsing" /\ UNCHANGED exit_code
     ELSE main_pc' = "exited" /\ exit_code' = 0
  /\ UNCHANGED <<args_added, last_event, prior_images, prior_dropped>>
  /\ UNCHANGED aux_vars

\* A record of the trace, while wmain is in parser.Parse.
WmainProcessEvent(record) ==
  /\ main_pc = "parsing"
  /\ ProcessEvent(record)
  /\ UNCHANGED driver_vars

\* wmain, from the return of ProcessTrace to "return 0".
WmainReturn(status) ==
  /\ main_pc = "parsing"
  /\ ParseReturn(status)
  /\ main_pc' = "exited"
  /\ exit_code' = 0
  /\ UNCHANGED <<args_added, last_event, prior_images, prior_dropped>>
  /\ UNCHANGED aux_vars

NextMain ==
  \/ \E path \in ParsePaths : WmainAddTraceFile(path)
  \/ WmainParse
  \/ \E record \in Records : WmainProcessEvent(record)
  \/ \E status \in ProcessTraceStatus : WmainReturn(status)

SpecMain == Init /\ [][NextMain]_vars

\* ------------------------------------------------------------------------
\* state::CurrentState: the events and the accessors of their values.
\* ------------------------------------------------------------------------

\* A value is its kind and what it holds: a number, a text or elements.
\* A struct maps the names of its fields to their values.
MakeValue(kind, number, text, elements) ==
  [kind |-> kind, value |-> number, text |-> text, elements |-> elements]

UIntValue(v) == MakeValue("uint", v, "", <<>>)

ULongValue(v) == MakeValue("ulong", v, "", <<>>)

StringValue(v) == MakeValue("string", 0, v, <<>>)

WStringValue(v) == MakeValue("wstring", 0, v, <<>>)

ArrayValue(elements) == MakeValue("array", 0, "", elements)

\* The kinds of the unsigned integers.
UnsignedKinds == {"uint", "ulong"}

\* The struct with one field more.
WithField(struct, name, value) ==
  [n \in DOMAIN struct \cup {name} |->
     IF n = name THEN value ELSE struct[n]]

\* The struct with one field less.
WithoutField(struct, name) == [n \in DOMAIN struct \ {name} |-> struct[n]]

EmptyStruct == [n \in {} |-> UIntValue(0)]

\* Value::GetAsULong: the value converts when its kind is an unsigned
\* integer.
IsUnsigned(value) == value.kind \in UnsignedKinds

\* StructValue::GetFieldAsULong succeeds: the field widens to 64 bits.
HasUnsignedField(struct, name) ==
  name \in DOMAIN struct /\ IsUnsigned(struct[name])

\* Value::GetAsUInteger: the value converts to 32 bits when its kind is an
\* unsigned integer of at most 32 bits; a 64-bit value is of another kind.
IsUInteger(value) == value.kind = "uint"

\* StructValue::GetFieldAsUInteger succeeds.
HasUIntegerField(struct, name) ==
  name \in DOMAIN struct /\ IsUInteger(struct[name])

\* StructValue::GetFieldAsString, GetFieldAsWString and
\* GetFieldAs<ArrayValue> succeed.
HasFieldOfKind(struct, name, kind) ==
  name \in DOMAIN struct /\ struct[name].kind = kind

\* The header ProcessEvent generates: the names of event/utils.h.
SinkHeader(category, operation, pid) ==
  [n \in {"category", "operation", "process_id"} |->
     IF n = "category" THEN StringValue(category)
     ELSE IF n = "operation" THEN StringValue(operation)
     ELSE ULongValue(pid)]

\* The ProcessId field of the payload of an image event: no header has it.
kPayloadPid == 7

\* The payload of an Image event of version 2 or 3; kind is "ulong" in a
\* 64-bit trace and "uint" in a 32-bit trace.
ImagePayload(kind, base, size) ==
  [n \in {"BaseAddress", "ModuleSize", "ProcessId", "ImageCheckSum",
          "TimeDateStamp", "ImageFileName"} |->
     IF n = "BaseAddress" THEN MakeValue(kind, base, "", <<>>)
     ELSE IF n = "ModuleSize" THEN MakeValue(kind, size, "", <<>>)
     ELSE IF n = "ProcessId" THEN UIntValue(kPayloadPid)
     ELSE IF n = "ImageCheckSum" THEN UIntValue(56)
     ELSE IF n = "TimeDateStamp" THEN UIntValue(34)
     ELSE WStringValue("image_a.dll")]

\* The payload of an Image event of version 0: no ImageCheckSum and no
\* TimeDateStamp.
ImagePayloadV0(base, size) ==
  WithoutField(WithoutField(ImagePayload("uint", base, size),
                            "ImageCheckSum"), "TimeDateStamp")

\* Base addresses in the payloads.
SinkBases == {0, 1}

\* The complete payloads of a 32-bit trace.
CompletePayloads ==
  {ImagePayload("uint", base, image.size) :
     base \in SinkBases, image \in SinkImages}

\* The payloads of the Image events: complete ones of both widths, one of
\* version 0, and one whose BaseAddress is not an integer.
ImagePayloads ==
  CompletePayloads
  \cup {ImagePayload("ulong", 0, 4), ImagePayloadV0(0, 4),
        WithField(ImagePayload("uint", 0, 4), "BaseAddress",
                  WStringValue("1"))}

\* The addresses in the Stack arrays.
StackAddresses == {1, 6}

\* The elements of the Stack arrays: addresses, and one value that is not
\* an integer.
StackElements ==
  {ULongValue(address) : address \in StackAddresses}
  \cup {WStringValue("1")}

\* The payload of a StackWalk/Stack event.
StackPayload(pid, stack) ==
  [n \in {"EventTimeStamp", "StackProcess", "StackThread", "Stack"} |->
     IF n = "EventTimeStamp" THEN ULongValue(9)
     ELSE IF n = "StackProcess" THEN UIntValue(pid)
     ELSE IF n = "StackThread" THEN UIntValue(3)
     ELSE ArrayValue(stack)]

StackPayloads ==
  UNION {{StackPayload(kPid, stack) : stack \in [1 .. n -> StackElements]}
         : n \in 0 .. MaxStack}
  \cup {StackPayload(kOtherPid, <<ULongValue(1)>>),
        WithoutField(StackPayload(kPid, <<>>), "StackThread")}

\* The (category, operation) pairs that OnEvent hands to the image
\* handlers, and pairs that it hands to none.
ImageOperations ==
  {<<"Image", "Load">>, <<"Image", "DCStart">>, <<"Image", "Unload">>}

OtherOperations ==
  {<<"Image", "KernelBase">>, <<"Image", "DCEnd">>, <<"StackWalk", "Load">>,
   <<"Process", "Load">>, <<"Process", "Unload">>}

MakeEvent(header, payload) == [header |-> header, payload |-> payload]

\* The events given to CurrentState::OnEvent: every image payload under the
\* image operations for one process and the complete ones for the other, a
\* complete image payload and a stack payload under operations the sink
\* ignores, stack payloads under StackWalk/Stack with the header of a
\* process that is not StackProcess, a complete image payload under
\* StackWalk/Stack, and image events whose header lacks a field or has a
\* category that is not a string.
Events ==
  {MakeEvent(SinkHeader(op[1], op[2], kPid), payload) :
     op \in ImageOperations, payload \in ImagePayloads}
  \cup {MakeEvent(SinkHeader(op[1], op[2], kOtherPid), payload) :
          op \in ImageOperations, payload \in CompletePayloads}
  \cup {MakeEvent(SinkHeader(op[1], op[2], kPid),
                  ImagePayload("uint", 1, 4)) :
          op \in OtherOperations \cup {<<"StackWalk", "Stack">>}}
  \cup {MakeEvent(SinkHeader(op[1], op[2], kPid),
                  StackPayload(kPid, <<ULongValue(1)>>)) :
          op \in {<<"StackWalk", "Load">>, <<"Image", "Load">>}}
  \cup {MakeEvent(SinkHeader("StackWalk", "Stack", kPayloadPid), payload) :
          payload \in StackPayloads}
  \cup {MakeEvent(WithoutField(SinkHeader("Image", "Load", kPid), name),
                  ImagePayload("uint", 0, 4)) :
          name \in {"category", "operation", "process_id"}}
  \cup {MakeEvent(WithoutField(SinkHeader("Image", "Unload", kPid),
                               "process_id"),
                  ImagePayload("uint", 0, 4)),
        MakeEvent(WithField(SinkHeader("Image", "Load", kPid), "category",
                            WStringValue("Image")),
                  ImagePayload("uint", 0, 4))}

\* ------------------------------------------------------------------------
\* state::CurrentState::OnEvent and its handlers.
\* ------------------------------------------------------------------------

kImageCategory == "Image"

kImageLoadOperation == "Load"

kImageDCStartOperation == "DCStart"

kImageUnloadOperation == "Unload"

kStackWalkCategory == "StackWalk"

kStackOperation == "Stack"

\* The number a field holds, or what the variable of the caller held when
\* the accessor fails.
FieldValueOr(struct, name, default) ==
  IF name \in DOMAIN struct THEN struct[name].value ELSE default

\* The text a field holds, or what the variable of the caller held.
FieldTextOr(struct, name, default) ==
  IF name \in DOMAIN struct THEN struct[name].text ELSE default

\* A handler that returns without a call on the resolver.
NoResolverCall ==
  /\ last_call' = NoCall
  /\ image_base_address' = 0
  /\ find_ret' = Nullptr
  /\ resolve_ret' = FALSE
  /\ symbol' = NoSymbol
  /\ UNCHANGED <<pid_to_images, symbol_cache, enum_calls>>
  /\ UNCHANGED non_resolver_vars

\* The dispatch of OnEvent to OnImageLoad without the test of the category.
IsImageLoadOfAnyCategory(category, operation) ==
  operation \in {kImageLoadOperation, kImageDCStartOperation}

\* The dispatch of OnEvent to OnImageLoad.
IsImageLoad(category, operation) ==
  /\ category = kImageCategory
  /\ operation \in {kImageLoadOperation, kImageDCStartOperation}

\* The dispatch of OnEvent to OnImageUnload.
IsImageUnload(category, operation) ==
  category = kImageCategory /\ operation = kImageUnloadOperation

\* The dispatch of OnEvent to OnStackWalk.
IsStackWalk(category, operation) ==
  category = kStackWalkCategory /\ operation = kStackOperation

\* The pid of an image event: the process_id field of its header.
EventPid(event) == FieldValueOr(event.header, "process_id", 0)

\* OnImageLoad accepting a payload without ImageCheckSum and TimeDateStamp.
ImageLoadIsCompleteV0(event) ==
  /\ HasUIntegerField(event.payload, "ModuleSize")
  /\ HasFieldOfKind(event.payload, "ImageFileName", "wstring")
  /\ HasUnsignedField(event.payload, "BaseAddress")
  /\ HasUnsignedField(event.header, "process_id")

\* The accessors of OnImageLoad all succeed.
ImageLoadIsComplete(event) ==
  /\ HasUIntegerField(event.payload, "ModuleSize")
  /\ HasUIntegerField(event.payload, "ImageCheckSum")
  /\ HasUIntegerField(event.payload, "TimeDateStamp")
  /\ HasFieldOfKind(event.payload, "ImageFileName", "wstring")
  /\ HasUnsignedField(event.payload, "BaseAddress")
  /\ HasUnsignedField(event.header, "process_id")

\* The image OnImageLoad builds from the payload.
ImageOf(payload) ==
  [size |-> FieldValueOr(payload, "ModuleSize", 0),
   checksum |-> FieldValueOr(payload, "ImageCheckSum", 0),
   timestamp |-> FieldValueOr(payload, "TimeDateStamp", 0),
   filename |-> FieldTextOr(payload, "ImageFileName", "")]

\* CurrentState::OnImageLoad
OnImageLoad(event) ==
  IF ~ImageLoadIsComplete(event) THEN NoResolverCall
  ELSE LoadImage(EventPid(event),
                 FieldValueOr(event.payload, "BaseAddress", 0),
                 ImageOf(event.payload))

\* The accessors of OnImageUnload both succeed.
ImageUnloadIsComplete(event) ==
  /\ HasUnsignedField(event.payload, "BaseAddress")
  /\ HasUnsignedField(event.header, "process_id")

\* OnImageUnload taking the pid from the ProcessId field of the payload.
OnImageUnloadOfPayloadPid(event) ==
  IF ~ImageUnloadIsComplete(event) THEN NoResolverCall
  ELSE UnloadImage(FieldValueOr(event.payload, "ProcessId", 0),
                   FieldValueOr(event.payload, "BaseAddress", 0))

\* CurrentState::OnImageUnload
OnImageUnload(event) ==
  IF ~ImageUnloadIsComplete(event) THEN NoResolverCall
  ELSE UnloadImage(EventPid(event),
                   FieldValueOr(event.payload, "BaseAddress", 0))

\* symbol_cache_.find(image) != symbol_cache_.end(), for the cache at some
\* point of OnStackWalk.
CachedIn(cache, image) == \E key \in DOMAIN cache : SameImage(key, image)

\* The caches GetImageSymbols can leave, from the cache it finds.
CachesAfter(cache, image) ==
  IF CachedIn(cache, image) THEN {cache}
  ELSE {MapPut(cache, image, sorted) :
          sorted \in UNION {SortOutcomes(enumerated) :
                              enumerated \in Enumerations(image)}}

\* What one ResolveSymbol(pid, address) of OnStackWalk can leave: the
\* cache, the numbers of EnumerateSymbols calls and the calls made so far.
ResolveOutcomes(state, pid, address) ==
  LET found == FindImage(pid_to_images, pid, address, 0)
      resolved == Append(state.resolved, <<pid, address>>)
  IN IF found.ret.null
     THEN {[state EXCEPT !.resolved = resolved]}
     ELSE {[cache |-> cache,
            calls |-> IF CachedIn(state.cache, found.ret.image)
                      THEN state.calls
                      ELSE [state.calls EXCEPT ![found.ret.image] = @ + 1],
            resolved |-> resolved] :
             cache \in CachesAfter(state.cache, found.ret.image)}

RECURSIVE Symbolize(_, _, _)

\* The loop of OnStackWalk over the elements of the Stack array: it
\* returns at the first element that GetAsULong does not convert.
Symbolize(state, pid, stack) ==
  IF stack = <<>> THEN {state}
  ELSE IF ~IsUnsigned(Head(stack)) THEN {state}
  ELSE UNION {Symbolize(next, pid, Tail(stack)) :
                next \in ResolveOutcomes(state, pid, Head(stack).value)}

\* The accessors of OnStackWalk all succeed.
StackWalkIsComplete(event) ==
  /\ HasUnsignedField(event.payload, "EventTimeStamp")
  /\ HasUnsignedField(event.payload, "StackProcess")
  /\ HasUnsignedField(event.payload, "StackThread")
  /\ HasFieldOfKind(event.payload, "Stack", "array")

\* CurrentState::OnStackWalk (build with USE_DBGHELP).  resolved lists the
\* ResolveSymbol calls it made.
OnStackWalk(event) ==
  IF ~StackWalkIsComplete(event) THEN NoResolverCall
  ELSE \E outcome \in
            Symbolize([cache |-> symbol_cache, calls |-> enum_calls,
                       resolved |-> <<>>],
                      event.payload["StackProcess"].value,
                      event.payload["Stack"].elements) :
         /\ symbol_cache' = outcome.cache
         /\ enum_calls' = outcome.calls
         /\ last_call' = [op |-> "OnStackWalk",
                          pid |-> event.payload["StackProcess"].value,
                          address |-> 0, hit |-> FALSE,
                          resolved |-> outcome.resolved]
         /\ image_base_address' = 0
         /\ find_ret' = Nullptr
         /\ resolve_ret' = FALSE
         /\ symbol' = NoSymbol
         /\ UNCHANGED pid_to_images
         /\ UNCHANGED non_resolver_vars

\* OnEvent hands the event to OnImageLoad or OnImageUnload, which logs it as
\* incomplete and returns.
IncompleteImageEvent(event) ==
  /\ HasFieldOfKind(event.header, "category", "string")
  /\ HasFieldOfKind(event.header, "operation", "string")
  /\ LET category == event.header["category"].text
         operation == event.header["operation"].text
     IN \/ IsImageLoad(category, operation) /\ ~ImageLoadIsComplete(event)
        \/ /\ IsImageUnload(category, operation)
           /\ ~ImageUnloadIsComplete(event)

\* CurrentState::OnEvent
OnEvent(event) ==
  /\ last_event' = event
  /\ prior_images' = pid_to_images
  /\ prior_dropped' = IncompleteImageEvent(last_event)
  /\ UNCHANGED <<main_pc, exit_code, args_added>>
  /\ UNCHANGED aux_vars
  /\ IF ~(/\ HasFieldOfKind(event.header, "category", "string")
          /\ HasFieldOfKind(event.header, "operation", "string"))
     THEN NoResolverCall
     ELSE LET category == event.header["category"].text
              operation == event.header["operation"].text
          IN IF IsImageLoad(category, operation) THEN OnImageLoad(event)
             ELSE IF IsImageUnload(category, operation)
               THEN OnImageUnload(event)
             ELSE IF IsStackWalk(category, operation)
               THEN OnStackWalk(event)
             ELSE NoResolverCall

NextState == \E event \in Events : OnEvent(event)

SpecState == Init /\ [][NextState]_vars

\* ------------------------------------------------------------------------
\* base::MultiCallback.
\* ------------------------------------------------------------------------

\* The variables of the parser, the resolver, wmain and the sink.
core_vars == <<resolver_vars, non_resolver_vars, main_vars>>

\* The variables MultiCallback has no access to.
outside_callback == <<core_vars, dbghelp_vars, decoder_vars>>

\* The callbacks of the tests: the methods of the mock object.
CallbackNames == {"Method1", "Method2"}

\* The vectors given to MultiCallback; a callback can be there twice.
CallbackVectors ==
  UNION {[1 .. n -> CallbackNames] : n \in 0 .. MaxCallbacks}

\* The argument lists of the tests, and one more of one argument.
ArgumentLists == {<<8>>, <<8, 42>>, <<5>>}

\* base::MultiCallback(callbacks): the function returned holds a copy of
\* the vector.
MultiCallback(callbacks) ==
  /\ mc_pc \in {"none", "ready"}
  /\ mc_callbacks' = callbacks
  /\ mc_args' = <<>>
  /\ mc_index' = 0
  /\ mc_calls' = <<>>
  /\ mc_pc' = "ready"
  /\ UNCHANGED outside_callback

\* The function returned is invoked with args: the loop starts at the
\* first element of the vector.
InvokeMultiCallback(args) ==
  /\ mc_pc = "ready"
  /\ mc_args' = args
  /\ mc_index' = 1
  /\ mc_calls' = <<>>
  /\ mc_pc' = "running"
  /\ UNCHANGED <<mc_callbacks, outside_callback>>

\* A range-based for loop that goes through the vector from its end.
LoopElementReversed(callbacks, index) == callbacks[Len(callbacks) + 1 - index]

\* The element the range-based for loop is at.
LoopElement(callbacks, index) == callbacks[index]

\* callback(args...) for the element the loop is at.
CallbackInvoked ==
  /\ mc_pc = "running"
  /\ mc_index <= Len(mc_callbacks)
  /\ mc_calls' = Append(mc_calls,
                        [callback |-> LoopElement(mc_callbacks, mc_index),
                         args |-> mc_args])
  /\ mc_index' = mc_index + 1
  /\ UNCHANGED <<mc_callbacks, mc_args, mc_pc, outside_callback>>

\* The loop is past the last element: the function returns.
MultiCallbackReturns ==
  /\ mc_pc = "running"
  /\ mc_index > Len(mc_callbacks)
  /\ mc_pc' = "ready"
  /\ UNCHANGED <<mc_callbacks, mc_args, mc_index, mc_calls, outside_callback>>

NextCallback ==
  \/ \E callbacks \in CallbackVectors : MultiCallback(callbacks)
  \/ \E args \in ArgumentLists : InvokeMultiCallback(args)
  \/ CallbackInvoked
  \/ MultiCallbackReturns

SpecCallback == Init /\ [][NextCallback]_vars

\* ------------------------------------------------------------------------
\* symbols::win::DbghelpWrapper.
\* ------------------------------------------------------------------------

\* The variables DbghelpWrapper has no access to.
outside_dbghelp == <<core_vars, callback_vars, decoder_vars>>

\* "Address at which images are loaded."
kDefaultBaseAddress == 1024

\* The images whose symbols are enumerated.
DbghelpImages == Images \cup SymbolImages

\* The base addresses of the modules loaded in a session.
LoadedBases(modules) == {module.base : module \in modules}

\* The image of the module loaded at a base address.
ModuleAt(modules, base) ==
  (CHOOSE module \in modules : module.base = base).image

\* ::SymLoadModuleEx at a base address: the call loads the module, or fails
\* with an error; "SymLoadModuleEx() returns 0 in case of error, when a
\* module is loaded at address 0 or when the module is already loaded", in
\* which case it loads nothing and the last error is ERROR_SUCCESS.
SymLoadModuleEx(modules, image, base) ==
  IF base \in LoadedBases(modules)
  THEN {[modules |-> modules, dwRet |-> 0, error |-> FALSE]}
  ELSE {[modules |-> modules \cup {[base |-> base, image |-> image]},
         dwRet |-> base, error |-> FALSE],
        [modules |-> modules, dwRet |-> 0, error |-> TRUE]}

\* ::SymUnloadModule64(handle, BaseOfDll): the module loaded at that base
\* address leaves the session.
SymUnloadModule64(modules, base) ==
  {module \in modules : module.base # base}

\* "Unload the image information from DbgHelp."
UnloadAfterEnumeration(modules) == SymUnloadModule64(modules, 0)

\* A return of EnumerateSymbols that calls no callback and returns false.
EnumerateReturns(image, path, modules) ==
  /\ dbg_image' = image
  /\ dbg_reported' = <<>>
  /\ dbg_ret' = [path |-> path, value |-> FALSE]
  /\ dbg_modules' = modules

\* DbghelpWrapper::EnumerateSymbols.  The outcomes of SymInitialize,
\* CreateFileW, SymLoadModuleEx and SymEnumSymbols are those of the system;
\* SymEnumSymbols enumerates the module that is loaded at the default base
\* address.
EnumerateSymbols(image) ==
  /\ UNCHANGED outside_dbghelp
  /\ \/ /\ ~dbg_initialized
        /\ UNCHANGED dbg_initialized
        /\ EnumerateReturns(image, "Initialize failed", dbg_modules)
     \/ /\ dbg_initialized' = TRUE
        /\ \/ EnumerateReturns(image, "CreateFileW failed", dbg_modules)
           \/ \E loaded \in
                  SymLoadModuleEx(dbg_modules, image, kDefaultBaseAddress) :
                IF loaded.dwRet = 0 /\ loaded.error
                THEN EnumerateReturns(image, "SymLoadModuleEx failed",
                                      dbg_modules)
                ELSE
                  \/ EnumerateReturns(image, "SymEnumSymbols failed",
                                      loaded.modules)
                  \/ EnumerateReturns(image, "SymEnumSymbols FALSE",
                                      UnloadAfterEnumeration(loaded.modules))
                  \/ \E enumerated \in
                         Enumerations(ModuleAt(loaded.modules,
                                               kDefaultBaseAddress)) :
                       /\ dbg_image' = image
                       /\ dbg_reported' = enumerated
                       /\ dbg_ret' = [path |-> "end", value |-> TRUE]
                       /\ dbg_modules' =
                            UnloadAfterEnumeration(loaded.modules)

NextDbghelp == \E image \in DbghelpImages : EnumerateSymbols(image)

SpecDbghelp == Init /\ [][NextDbghelp]_vars

\* ------------------------------------------------------------------------
\* parser::Decoder and the payload decoders of parser::etw.
\* ------------------------------------------------------------------------

\* The variables the payload decoders have no access to.
outside_decoder == <<core_vars, callback_vars, dbghelp_vars>>

\* A decoded value: a scalar with the bytes it was read from, first byte
\* first (the little-endian digits of its number); a wide string with its
\* code units; an array of unsigned chars with its elements; a struct with
\* its fields.
DecodedValue(kind, bytes, fields) ==
  [kind |-> kind, bytes |-> bytes, fields |-> fields]

\* A StructValue of the fields given.
DecodedStruct(fields) == DecodedValue("StructValue", <<>>, fields)

\* StructValue::AddField(name, value): the field is appended.
AddField(fields, name, value) ==
  Append(fields, [name |-> name, value |-> value])

\* sizeof(T) of the scalar values.
ScalarSizes ==
  [UCharValue |-> 1, ShortValue |-> 2, UShortValue |-> 2, IntValue |-> 4,
   UIntValue |-> 4, ULongValue |-> 8]

\* Decoder::RemainingBytes().
RemainingBytes(decoder) == decoder.length - decoder.position

\* The bytes a read of that size takes at the cursor.
Slice(decoder, size) ==
  [i \in 1 .. size |-> decoder.buffer.bytes[decoder.position + i]]

\* The cursor after a read of that size.
Skip(decoder, size) ==
  [decoder EXCEPT
     !.position = @ + size,
     !.reads = @ \cup (decoder.position .. decoder.position + size - 1)]

\* What a decoding function gives back: whether it succeeded, the decoder
\* and the struct after it.
Decoded(decoder, fields) ==
  [ok |-> TRUE, decoder |-> decoder, fields |-> fields]

Failed(decoder, fields) ==
  [ok |-> FALSE, decoder |-> decoder, fields |-> fields]

\* template Decode<T>(name, decoder, fields): Decoder::Decode<T>() fails
\* when the read crosses the end of the buffer.
Decode(kind, name, decoder, fields) ==
  IF RemainingBytes(decoder) < ScalarSizes[kind]
  THEN Failed(decoder, fields)
  ELSE Decoded(Skip(decoder, ScalarSizes[kind]),
               AddField(fields, name,
                        DecodedValue(kind, Slice(decoder, ScalarSizes[kind]),
                                     <<>>)))

\* DecodeUInteger: a ULongValue on 64 bits, a UIntValue on 32 bits.
DecodeUInteger(name, is_64_bit, decoder, fields) ==
  IF is_64_bit
  THEN Decode("ULongValue", name, decoder, fields)
  ELSE Decode("UIntValue", name, decoder, fields)

\* The UTF-16 code units of a sequence of bytes, low byte first.
CodeUnits(bytes) ==
  [i \in 1 .. Len(bytes) \div 2 |-> bytes[2 * i - 1] + 256 * bytes[2 * i]]

\* The code units before the first NUL.
RECURSIVE UntilNul(_)
UntilNul(units) ==
  IF units = <<>> \/ Head(units) = 0
  THEN <<>>
  ELSE <<Head(units)>> \o UntilNul(Tail(units))

\* DecodeFixedW16String(name, length, decoder, fields):
\* Decoder::DecodeFixedW16String(length) reads length code units, the
\* string ends at the first NUL among them.
DecodeFixedW16String(name, length, decoder, fields) ==
  IF RemainingBytes(decoder) < 2 * length
  THEN Failed(decoder, fields)
  ELSE Decoded(Skip(decoder, 2 * length),
               AddField(fields, name,
                        DecodedValue("WStringValue",
                                     UntilNul(CodeUnits(Slice(decoder,
                                                              2 * length))),
                                     <<>>)))

\* template DecodeArray<UCharValue>(name, length, decoder, fields): the
\* elements are decoded one after the other, and the array is added when
\* all of them were.
DecodeArray(name, length, decoder, fields) ==
  IF RemainingBytes(decoder) < length
  THEN Failed(Skip(decoder, RemainingBytes(decoder)), fields)
  ELSE Decoded(Skip(decoder, length),
               AddField(fields, name,
                        DecodedValue("ArrayValue", Slice(decoder, length),
                                     <<>>)))

\* A field of a layout, and a wide string of a fixed length.
Field(type, name) == [type |-> type, name |-> name, length |-> 0]

FixedW16String(name, length) ==
  [type |-> "FixedW16String", name |-> name, length |-> length]

\* The fields DecodeSystemTime decodes.
SystemTimeLayout ==
  <<Field("ShortValue", "wYear"), Field("ShortValue", "wMonth"),
    Field("ShortValue", "wDayOfWeek"), Field("ShortValue", "wDay"),
    Field("ShortValue", "wHour"), Field("ShortValue", "wMinute"),
    Field("ShortValue", "wSecond"), Field("ShortValue", "wMilliseconds")>>

\* The fields of a time zone with StandardBias ahead of StandardDate.
TimeZoneLayoutBiasBeforeDate ==
  <<Field("IntValue", "Bias"), FixedW16String("StandardName", 32),
    Field("IntValue", "StandardBias"), Field("SystemTime", "StandardDate"),
    FixedW16String("DaylightName", 32),
    Field("SystemTime", "DaylightDate"), Field("IntValue", "DaylightBias")>>

\* The fields DecodeTimeZoneInformation decodes.
TimeZoneLayout ==
  <<Field("IntValue", "Bias"), FixedW16String("StandardName", 32),
    Field("SystemTime", "StandardDate"), Field("IntValue", "StandardBias"),
    FixedW16String("DaylightName", 32),
    Field("SystemTime", "DaylightDate"), Field("IntValue", "DaylightBias")>>

\* The decoding functions called one after the other, up to the first
\* that fails (the operands of ||).
RECURSIVE DecodeLayout(_, _, _, _)

\* DecodeSystemTime.
DecodeSystemTime(name, decoder, fields) ==
  LET system_time == DecodeLayout(SystemTimeLayout, FALSE, decoder, <<>>)
  IN  IF ~system_time.ok
      THEN Failed(system_time.decoder, fields)
      ELSE Decoded(system_time.decoder,
                   AddField(fields, name, DecodedStruct(system_time.fields)))

DecodeField(field, is_64_bit, decoder, fields) ==
  CASE field.type = "Pointer" ->
         DecodeUInteger(field.name, is_64_bit, decoder, fields)
    [] field.type = "FixedW16String" ->
         DecodeFixedW16String(field.name, field.length, decoder, fields)
    [] field.type = "SystemTime" ->
         DecodeSystemTime(field.name, decoder, fields)
    [] OTHER -> Decode(field.type, field.name, decoder, fields)

DecodeLayout(layout, is_64_bit, decoder, fields) ==
  IF layout = <<>>
  THEN Decoded(decoder, fields)
  ELSE LET first == DecodeField(Head(layout), is_64_bit, decoder, fields)
       IN  IF ~first.ok
           THEN first
           ELSE DecodeLayout(Tail(layout), is_64_bit, first.decoder,
                             first.fields)

\* DecodeTimeZoneInformation.
DecodeTimeZoneInformation(name, decoder, fields) ==
  LET timezone == DecodeLayout(TimeZoneLayout, FALSE, decoder, <<>>)
  IN  IF ~timezone.ok
      THEN Failed(timezone.decoder, fields)
      ELSE Decoded(timezone.decoder,
                   AddField(fields, name, DecodedStruct(timezone.fields)))

\* DecodeSID without its check of the minimal SID length.
NoMinimalSIDCheck(decoder) == FALSE

\* "Check the minimal SID length to avoid out-of-bound accesses."
FewerThanMinimalSID(decoder) == RemainingBytes(decoder) < 3 * 8

\* The padding read on 32 bits as well.
SkipPaddingAlways(is_64_bit, decoder) ==
  Decode("UIntValue", "padding", decoder, <<>>)

\* "Skip padding."
SkipPadding(is_64_bit, decoder) ==
  IF is_64_bit
  THEN Decode("UIntValue", "padding", decoder, <<>>)
  ELSE Decoded(decoder, <<>>)

\* What a read outside the buffer can give.
StrayBytes == {0, 1, 255}

\* Decoder::Lookup(offset): the byte at that offset from the cursor, the
\* cursor stays.  Outside the buffer the byte is any byte.
LookupValues(decoder, offset) ==
  IF decoder.position + offset < decoder.length
     /\ decoder.position + offset < Len(decoder.buffer.bytes)
  THEN {decoder.buffer.bytes[decoder.position + offset + 1]}
  ELSE StrayBytes

kSID_REVISION == 1

kSID_MAX_SUB_AUTHORITIES == 15

\* What DecodeSID gives back: its return (or the DCHECK that failed), the
\* decoder and the struct after it, and the offsets it looked up.
SIDResult(ret, decoder, fields, peeked) ==
  [ret |-> ret, decoder |-> decoder, fields |-> fields, peeked |-> peeked]

\* DecodeSID.  The DCHECKs abort the process in the builds that have them.
DecodeSID(name, is_64_bit, decoder, fields, dcheck_is_on) ==
  IF FewerThanMinimalSID(decoder)
  THEN {SIDResult("false", decoder, fields, {})}
  ELSE
    LET psid == DecodeUInteger("PSid", is_64_bit, decoder, <<>>)
        attributes == Decode("UIntValue", "Attributes", psid.decoder,
                             psid.fields)
        padding == SkipPadding(is_64_bit, attributes.decoder)
        at == padding.decoder
        peeked == {at.position, at.position + 1}
    IN  IF ~psid.ok
        THEN {SIDResult("false", psid.decoder, fields, {})}
        ELSE IF ~attributes.ok
        THEN {SIDResult("false", attributes.decoder, fields, {})}
        ELSE IF ~padding.ok
        THEN {SIDResult("false", padding.decoder, fields, {})}
        ELSE
          {IF dcheck_is_on
              /\ (revision # kSID_REVISION
                  \/ subAuthorityCount > kSID_MAX_SUB_AUTHORITIES)
           THEN SIDResult("DCHECK", at, fields, peeked)
           ELSE
             LET sid == DecodeArray("Sid", 4 * subAuthorityCount + 8, at,
                                    attributes.fields)
             IN  IF ~sid.ok
                 THEN SIDResult("false", sid.decoder, fields, peeked)
                 ELSE SIDResult("true", sid.decoder,
                                AddField(fields, name,
                                         DecodedStruct(sid.fields)),
                                peeked)
             : revision \in LookupValues(at, 0),
               subAuthorityCount \in LookupValues(at, 1)}

\* The bytes of the payloads that are not said otherwise.
Filler(offset) == (7 * offset + 3) % 256

\* A payload with a SID body at an offset: revision 1, then the number of
\* sub-authorities.
SidPayload(length, at, count) ==
  [i \in 1 .. length |->
     IF i - 1 = at THEN kSID_REVISION
     ELSE IF i - 1 = at + 1 THEN count
     ELSE Filler(i - 1)]

SidLengths == {0, 8, 20, 23, 24, 28, 32, 36, 44, 96}

\* Where the SID body starts: after a TOKEN_USER of 8 or 16 bytes, itself
\* after no field or after a pointer.
SidBodyOffsets == {8, 12, 16, 24}

SubAuthorityCounts == {0, 1, 2, 16, 255}

\* A payload of wide characters, with NULs at some code units.
TimeZonePayload(length, nuls) ==
  [i \in 1 .. length |->
     IF (i - 1) % 2 = 1 \/ ((i - 1) \div 2) \in nuls THEN 0 ELSE 65]

TimeZoneLengths == {4, 100, 171, 172, 176, 180, 184}

\* The code units that are NUL: none, the first of each name, later ones,
\* one followed by other characters.
TimeZoneNuls == {{}, {2, 44}, {5, 50}, {5, 7, 44}, {6, 48}}

\* The payloads the decoders are constructed over.
Payloads ==
  {SidPayload(length, at, count) :
     length \in SidLengths, at \in SidBodyOffsets,
     count \in SubAuthorityCounts}
  \cup {TimeZonePayload(length, nuls) :
          length \in TimeZoneLengths, nuls \in TimeZoneNuls}

\* The call that was made last on the decoder and the struct.
DecoderCall(op, is_64_bit, dcheck_is_on, peeked) ==
  [op |-> op, is_64_bit |-> is_64_bit, dcheck_is_on |-> dcheck_is_on,
   before |-> payload_decoder, fields_before |-> dec_fields,
   peeked |-> peeked, event |-> NoDecoderCall.event]

\* The value a decoding function returned.
ReturnOf(result) == IF result.ok THEN "true" ELSE "false"

\* The process runs, and no decoding function has failed on this payload.
StillDecoding == dec_ret \in {"none", "true"} /\ dec_call.op # "none"

\* Decoder decoder(payload, payload_size) and a new StructValue.
NewDecoder(bytes) ==
  /\ dec_ret # "DCHECK"
  /\ payload_decoder' = Decoder(PayloadOf(bytes), Len(bytes))
  /\ dec_fields' = <<>>
  /\ dec_ret' = "none"
  /\ dec_call' = [NoDecoderCall EXCEPT !.op = "Decoder"]
  /\ UNCHANGED <<dec_operation, dec_category, outside_decoder>>

\* The pointer that comes first in the payloads that hold a SID.
CallDecodeUInteger(is_64_bit) ==
  /\ StillDecoding
  /\ dec_call.op = "Decoder"
  /\ LET result == DecodeUInteger("UniqueProcessKey", is_64_bit,
                                  payload_decoder, dec_fields)
     IN  /\ payload_decoder' = result.decoder
         /\ dec_fields' = result.fields
         /\ dec_ret' = ReturnOf(result)
  /\ dec_call' = DecoderCall("DecodeUInteger", is_64_bit, FALSE, {})
  /\ UNCHANGED <<dec_operation, dec_category, outside_decoder>>

\* DecodeSID("UserSID", is_64_bit, &decoder, fields).
CallDecodeSID(is_64_bit, dcheck_is_on) ==
  /\ StillDecoding
  /\ dec_call.op \in {"Decoder", "DecodeUInteger"}
  /\ \E result \in DecodeSID("UserSID", is_64_bit, payload_decoder,
                             dec_fields, dcheck_is_on) :
       /\ payload_decoder' = result.decoder
       /\ dec_fields' = result.fields
       /\ dec_ret' = result.ret
       /\ dec_call' = DecoderCall("DecodeSID", is_64_bit, dcheck_is_on,
                                  result.peeked)
  /\ UNCHANGED <<dec_operation, dec_category, outside_decoder>>

\* DecodeTimeZoneInformation("TimeZoneInformation", &decoder, fields).
CallDecodeTimeZoneInformation ==
  /\ StillDecoding
  /\ dec_call.op \in {"Decoder", "DecodeUInteger"}
  /\ LET result == DecodeTimeZoneInformation("TimeZoneInformation",
                                             payload_decoder, dec_fields)
     IN  /\ payload_decoder' = result.decoder
         /\ dec_fields' = result.fields
         /\ dec_ret' = ReturnOf(result)
  /\ dec_call' = DecoderCall("DecodeTimeZoneInformation", FALSE, FALSE, {})
  /\ UNCHANGED <<dec_operation, dec_category, outside_decoder>>

kPerfInfoProviderId == "CE1DBFB4-137E-4DA6-87B0-3F59AA102CBC"

\* A provider no decoder knows.
kUnknownProviderId == "00000000-0000-0000-0000-000000000000"

kVersion2 == 2

kPerfInfoDebuggerEnabledOpcode == 58

kPerfInfoISROpcode == 67

\* The table without its entry for DebuggerEnabled.
KnownEventsWithoutDebuggerEnabled ==
  {[provider |-> kPerfInfoProviderId, opcode |-> kPerfInfoISROpcode,
    version |-> kVersion2, category |-> "PerfInfo", operation |-> "ISR",
    layout |-> <<Field("ULongValue", "InitialTime"),
                 Field("Pointer", "Routine"),
                 Field("UCharValue", "ReturnValue"),
                 Field("UShortValue", "Vector"),
                 Field("UCharValue", "Reserved")>>]}

\* The events of the dispatch table that the model holds: their category,
\* their operation and their layout.
KnownEvents ==
  {[provider |-> kPerfInfoProviderId,
    opcode |-> kPerfInfoDebuggerEnabledOpcode, version |-> kVersion2,
    category |-> "PerfInfo", operation |-> "DebuggerEnabled",
    layout |-> <<>>],
   [provider |-> kPerfInfoProviderId, opcode |-> kPerfInfoISROpcode,
    version |-> kVersion2, category |-> "PerfInfo", operation |-> "ISR",
    layout |-> <<Field("ULongValue", "InitialTime"),
                 Field("Pointer", "Routine"),
                 Field("UCharValue", "ReturnValue"),
                 Field("UShortValue", "Vector"),
                 Field("UCharValue", "Reserved")>>]}

\* The entries of the table for a provider, a version and an opcode.
EventsFor(provider, version, opcode) ==
  {event \in KnownEvents :
     /\ event.provider = provider
     /\ event.version = version
     /\ event.opcode = opcode}

\* kPerfInfoDebuggerEnabledPayloadV2: "This byte is dummy."
kPerfInfoDebuggerEnabledPayloadV2 == <<0>>

\* The payloads given to DecodeRawETWKernelPayload, with their sizes: no
\* payload at all, the empty payload, and payloads of the sizes of ISR
\* events and shorter.
RawPayloads ==
  {[payload |-> NullPayload, payload_size |-> 0],
   [payload |-> PayloadOf(kPerfInfoDebuggerEnabledPayloadV2),
    payload_size |-> 0]}
  \cup {[payload |-> PayloadOf([i \in 1 .. 20 |-> Filler(i)]),
         payload_size |-> size] : size \in {0, 15, 16, 19, 20}}

\* The events given to DecodeRawETWKernelPayload.
RawEvents ==
  [provider : {kPerfInfoProviderId, kUnknownProviderId},
   version : {kVersion2},
   opcode : {kPerfInfoDebuggerEnabledOpcode, kPerfInfoISROpcode}]

\* DecodeRawETWKernelPayload(provider_id, version, opcode, is_64_bit,
\* payload, payload_size, &operation, &category, &fields).
DecodeRawETWKernelPayload(event, is_64_bit, raw) ==
  /\ dec_ret # "DCHECK"
  /\ dec_call' = [NoDecoderCall EXCEPT !.op = "DecodeRawETWKernelPayload",
                                      !.is_64_bit = is_64_bit,
                                      !.event = event]
  /\ UNCHANGED outside_decoder
  /\ IF EventsFor(event.provider, event.version, event.opcode) = {}
     THEN /\ payload_decoder' = Decoder(raw.payload, raw.payload_size)
          /\ dec_ret' = "false"
          /\ dec_fields' = <<>>
          /\ UNCHANGED <<dec_operation, dec_category>>
     ELSE \E known \in EventsFor(event.provider, event.version,
                                 event.opcode) :
            LET result == DecodeLayout(known.layout, is_64_bit,
                                       Decoder(raw.payload,
                                               raw.payload_size),
                                       <<>>)
            IN  /\ payload_decoder' = result.decoder
                /\ dec_ret' = ReturnOf(result)
                /\ IF result.ok
                   THEN /\ dec_fields' = result.fields
                        /\ dec_operation' = known.operation
                        /\ dec_category' = known.category
                   ELSE /\ dec_fields' = <<>>
                        /\ UNCHANGED <<dec_operation, dec_category>>

NextDecoder ==
  \/ \E bytes \in Payloads : NewDecoder(bytes)
  \/ \E is_64_bit \in BOOLEAN : CallDecodeUInteger(is_64_bit)
  \/ \E is_64_bit \in BOOLEAN, dcheck_is_on \in BOOLEAN :
       CallDecodeSID(is_64_bit, dcheck_is_on)
  \/ CallDecodeTimeZoneInformation
  \/ \E event \in RawEvents, is_64_bit \in BOOLEAN, raw \in RawPayloads :
       DecodeRawETWKernelPayload(event, is_64_bit, raw)

SpecDecoder == Init /\ [][NextDecoder]_vars

\* ------------------------------------------------------------------------
\* Properties of the image map (specification Spec).
\* ------------------------------------------------------------------------

\* What FindImage answers in the current state for (pid, address).
Lookup(pid, address) == FindImage(pid_to_images, pid, address, 0)

Found(pid, address) == ~Lookup(pid, address).ret.null

\* The base addresses of the live images of pid.
LiveBases(pid) ==
  IF pid \in DOMAIN pid_to_images THEN DOMAIN pid_to_images[pid] ELSE {}

\* The end of the image loaded at base in pid, as the program computes it.
EndOf(pid, base) == AddAddress(base, pid_to_images[pid][base].size)

\* base <= address < base + size, for the image loaded at base in pid.
Contains(pid, base, address) ==
  base <= address /\ address < EndOf(pid, base)

\* No live interval of pid lies inside another one and ends before it.
NoNesting(pid) ==
  \A b1 \in LiveBases(pid), b2 \in LiveBases(pid) :
    (b1 < b2 /\ b2 < EndOf(pid, b1)) => EndOf(pid, b2) >= EndOf(pid, b1)

ReturnsEntry(pid, address, base) ==
  Lookup(pid, address) = [ret |-> PointerTo(pid_to_images[pid][base]),
                          image_base_address |-> base]

\* C3 as stated: for every live entry at base B with image I of size s,
\* FindImage(pid, B) and FindImage(pid, B + s - 1) return I with base B.
C3_Original ==
  \A pid \in Pids : \A b \in LiveBases(pid) :
    /\ ReturnsEntry(pid, b, b)
    /\ ReturnsEntry(pid, SubAddress(EndOf(pid, b), 1), b)

\* C3 as amended: for every live entry at base B with image I of size
\* s >= 1 whose end B + s does not wrap, FindImage(pid, B) returns I with
\* base B, and FindImage(pid, B + s - 1) returns I with base B when no other
\* live entry of pid has its base in (B, B + s - 1].
C3_BoundaryAddresses ==
  \A pid \in Pids : \A b \in LiveBases(pid) :
    b < EndOf(pid, b) =>
      /\ ReturnsEntry(pid, b, b)
      /\ (\A c \in LiveBases(pid) : ~(b < c /\ c < EndOf(pid, b)))
           => ReturnsEntry(pid, EndOf(pid, b) - 1, b)

\* The last call was a FindImage of the last address B + s - 1 of a live
\* image of two addresses or more, and it returned that image with base B.
C3_Witness ==
  /\ last_call.op = "FindImage"
  /\ last_call.hit
  /\ \E b \in LiveBases(last_call.pid) :
       /\ b + 1 < EndOf(last_call.pid, b)
       /\ last_call.address = EndOf(last_call.pid, b) - 1
       /\ image_base_address = b
       /\ find_ret = PointerTo(pid_to_images[last_call.pid][b])

\* C4 as stated: for every live entry at base B with size s,
\* FindImage(pid, B + s) returns not-found.
C4_Original ==
  \A pid \in Pids : \A b \in LiveBases(pid) : ~Found(pid, EndOf(pid, b))

\* C4 as amended: for every live entry at base B with size s,
\* FindImage(pid, B + s) never returns that entry (no result with base B);
\* it returns not-found when the entry is the only live one of pid, and
\* otherwise also when no other live entry of pid contains B + s.
C4_EndIsExcluded ==
  \A pid \in Pids : \A b \in LiveBases(pid) :
    LET result == Lookup(pid, EndOf(pid, b))
    IN /\ ~(~result.ret.null /\ result.image_base_address = b)
       /\ (\A c \in LiveBases(pid) \ {b} : ~Contains(pid, c, EndOf(pid, b)))
            => result.ret.null

\* The last call was a FindImage of the first address past a live image of
\* one address or more, and it returned not-found.
C4_Witness ==
  /\ last_call.op = "FindImage"
  /\ ~last_call.hit
  /\ find_ret = Nullptr
  /\ \E b \in LiveBases(last_call.pid) :
       /\ b < EndOf(last_call.pid, b)
       /\ last_call.address = EndOf(last_call.pid, b)

\* The image stored at entry e = <<pid, base>> of a map.
ImageAt(images, e) == images[e[1]][e[2]]

\* Every entry other than those of the set touched is the same in the maps
\* before and after.
SameExcept(before, after, touched) ==
  \A e \in (Pids \X Addresses) \ touched :
    /\ IsLive(after, e) <=> IsLive(before, e)
    /\ IsLive(before, e) => ImageAt(after, e) = ImageAt(before, e)

\* C5: LoadImage(pid, B, I) makes the entry (pid, B) equal to I, replacing
\* any image stored there, and leaves every other entry of every pid as it
\* was.
C5_LoadImageFrame ==
  [][last_call'.op = "LoadImage" =>
       \A image \in Images :
         LoadImage(last_call'.pid, last_call'.address, image) =>
           /\ IsLive(pid_to_images', <<last_call'.pid, last_call'.address>>)
           /\ pid_to_images'[last_call'.pid][last_call'.address] = image
           /\ SameExcept(pid_to_images, pid_to_images',
                         {<<last_call'.pid, last_call'.address>>})]_vars

\* The last call was a LoadImage on an entry that was live already, while
\* another entry was live too.
C5_Witness ==
  /\ last_call.op = "LoadImage"
  /\ last_call.hit
  /\ <<last_call.pid, last_call.address>> \in Live(pid_to_images)
  /\ Live(pid_to_images) # {<<last_call.pid, last_call.address>>}

\* C6: UnloadImage(pid, B) removes exactly the entry (pid, B) when it is
\* live and changes nothing otherwise (no entry, no bucket); FindImage only
\* returns bases of live entries, and an entry becomes live only by a
\* LoadImage at its pid and base.
C6_UnloadImageFrame ==
  /\ [][/\ (last_call'.op = "UnloadImage"
             /\ UnloadImage(last_call'.pid, last_call'.address)) =>
             LET e == <<last_call'.pid, last_call'.address>>
             IN /\ ~IsLive(pid_to_images', e)
                /\ SameExcept(pid_to_images, pid_to_images', {e})
                /\ DOMAIN pid_to_images' = DOMAIN pid_to_images
                /\ ~IsLive(pid_to_images, e) => pid_to_images' = pid_to_images
        /\ \A e \in Live(pid_to_images') \ Live(pid_to_images) :
             /\ last_call'.op = "LoadImage"
             /\ e = <<last_call'.pid, last_call'.address>>
             /\ \E image \in Images : LoadImage(e[1], e[2], image)]_vars
  /\ [](\A pid \in Pids, a \in Addresses :
         Found(pid, a) =>
           IsLive(pid_to_images, <<pid, Lookup(pid, a).image_base_address>>))

\* The last call was an UnloadImage that removed a live entry lying inside
\* the interval of another live image of the pid, which is still live.
C6_Witness ==
  /\ last_call.op = "UnloadImage"
  /\ last_call.hit
  /\ <<last_call.pid, last_call.address>> \notin Live(pid_to_images)
  /\ \E b \in LiveBases(last_call.pid) :
       Contains(last_call.pid, b, last_call.address)

\* ------------------------------------------------------------------------
\* Properties of symbol resolution (specification SpecSymbols).
\* ------------------------------------------------------------------------

\* The step is a call of ResolveSymbol for an address that FindImage
\* attributes to an image.
ResolvedInImage ==
  /\ last_call'.op = "ResolveSymbol"
  /\ ~find_ret'.null

\* After such a step: the symbols of the image and the offset searched.
TableAfter == symbol_cache'[find_ret'.image]

OffsetAfter == last_call'.address - image_base_address'

\* S.offset <= k <= S.offset + S.size
InSymbol(sym, k) == sym.offset <= k /\ k <= sym.offset + sym.size

\* No two symbols of the table have the same offset (the order std::sort
\* gives to symbols of one offset plays no part).
DistinctOffsets(image_symbols) ==
  \A i \in 1 .. Len(image_symbols), j \in 1 .. Len(image_symbols) :
    i # j => image_symbols[i].offset # image_symbols[j].offset

\* C7 as stated: when the table of the image holds a symbol S with
\* S.offset <= k <= S.offset + S.size, ResolveSymbol(pid, B + k) succeeds
\* and returns the greatest-offset symbol that satisfies it, nested and
\* overlapping symbols included.  Stated for the tables whose symbols have
\* distinct offsets, where "the greatest-offset symbol" is one symbol.
C7_Original ==
  [][ResolvedInImage =>
       LET containing == {i \in 1 .. Len(TableAfter) :
                            InSymbol(TableAfter[i], OffsetAfter)}
       IN (DistinctOffsets(TableAfter) /\ containing # {}) =>
            /\ resolve_ret'
            /\ \E i \in containing : symbol' = TableAfter[i]
            /\ \A i \in containing : TableAfter[i].offset <= symbol'.offset
     ]_vars

\* C7 as amended: with M the greatest offset <= k of a symbol of the table,
\* ResolveSymbol(pid, B + k) returns only a symbol at offset M that
\* satisfies k <= M + size, it succeeds when every symbol at offset M
\* satisfies it, and it fails when there is no offset <= k; symbols of a
\* smaller offset are not searched.
C7_GreatestOffsetDecides ==
  [][ResolvedInImage =>
       LET before == {i \in 1 .. Len(TableAfter) :
                        TableAfter[i].offset <= OffsetAfter}
           top == {i \in before :
                     \A j \in before :
                       TableAfter[j].offset <= TableAfter[i].offset}
       IN /\ resolve_ret' =>
               /\ \E i \in top : symbol' = TableAfter[i]
               /\ InSymbol(symbol', OffsetAfter)
          /\ (top # {} /\ \A i \in top : InSymbol(TableAfter[i], OffsetAfter))
               => resolve_ret'
          /\ ~resolve_ret' => symbol' = NoSymbol
     ]_vars

\* The last call was a ResolveSymbol that returned a symbol while a symbol
\* of a smaller offset of the same image contains the offset too.
C7_Witness ==
  /\ last_call.op = "ResolveSymbol"
  /\ resolve_ret
  /\ ~find_ret.null
  /\ \E i \in 1 .. Len(symbol_cache[find_ret.image]) :
       /\ symbol_cache[find_ret.image][i].offset < symbol.offset
       /\ InSymbol(symbol_cache[find_ret.image][i],
                   last_call.address - image_base_address)

\* C8 as stated: for every symbol S of the image,
\* ResolveSymbol(pid, B + S.offset + S.size) returns S, also when another
\* symbol begins at offset S.offset + S.size.  Stated for the tables whose
\* symbols have distinct offsets.
C8_Original ==
  [][ResolvedInImage =>
       \A i \in 1 .. Len(TableAfter) :
         (/\ DistinctOffsets(TableAfter)
          /\ OffsetAfter = TableAfter[i].offset + TableAfter[i].size) =>
           resolve_ret' /\ symbol' = TableAfter[i]
     ]_vars

\* C8 as amended: for every symbol S of the image,
\* ResolveSymbol(pid, B + S.offset + S.size) returns S when the address is
\* attributed to the image and no other symbol of the table has its offset
\* in [S.offset, S.offset + S.size].
C8_ClosedUpperBound ==
  [][ResolvedInImage =>
       \A i \in 1 .. Len(TableAfter) :
         (/\ OffsetAfter = TableAfter[i].offset + TableAfter[i].size
          /\ \A j \in (1 .. Len(TableAfter)) \ {i} :
               ~(/\ TableAfter[i].offset <= TableAfter[j].offset
                 /\ TableAfter[j].offset <= OffsetAfter))
           => resolve_ret' /\ symbol' = TableAfter[i]
     ]_vars

\* The last call was a ResolveSymbol of the address B + S.offset + S.size
\* of a symbol S of one address or more, in a table of two symbols, and it
\* returned S.
C8_Witness ==
  /\ last_call.op = "ResolveSymbol"
  /\ resolve_ret
  /\ ~find_ret.null
  /\ Len(symbol_cache[find_ret.image]) = 2
  /\ symbol.size >= 1
  /\ last_call.address - image_base_address = symbol.offset + symbol.size

\* C9: EnumerateSymbols is called at most once for each Image value: on the
\* first ResolveSymbol whose address lies in an image of that value, and
\* never on another call, whatever the pid and base the image is loaded at
\* and whatever the first enumeration produced.
C9_EnumeratedOnce ==
  /\ [](\A image \in SymbolImages :
          /\ enum_calls[image] <= 1
          /\ enum_calls[image] = 1 <=> IsCached(image))
  /\ [][/\ \A image \in SymbolImages :
             enum_calls'[image] # enum_calls[image] =>
               /\ last_call'.op = "ResolveSymbol"
               /\ ~find_ret'.null
               /\ find_ret'.image = image
               /\ enum_calls[image] = 0
               /\ enum_calls'[image] = 1
        /\ (last_call'.op = "ResolveSymbol" /\ ~find_ret'.null) =>
             enum_calls'[find_ret'.image] = 1
       ]_vars

\* The last call was a ResolveSymbol in an image whose table was in the
\* cache already, empty, with the image loaded in the other process and at
\* another base than the image enumerated first.
C9_Witness ==
  /\ last_call.op = "ResolveSymbol"
  /\ last_call.hit
  /\ last_call.pid = kOtherPid
  /\ image_base_address = 1
  /\ ~find_ret.null
  /\ symbol_cache[find_ret.image] = <<>>
  /\ \A image \in SymbolImages : enum_calls[image] = 1

\* ------------------------------------------------------------------------
\* Properties of the trace files of a parser (specification SpecParser).
\* ------------------------------------------------------------------------

\* The last four characters of the path are ".etl".
EndsInEtl(path) ==
  /\ Len(path) >= 4
  /\ path[Len(path) - 3] = "."
  /\ path[Len(path) - 2] = "e"
  /\ path[Len(path) - 1] = "t"
  /\ path[Len(path)] = "l"

\* C10: after any sequence of AddTraceFile calls the parser holds at most
\* one trace file; a call returns true exactly when no file is held and the
\* path ends in ".etl", and it then holds that path; a call that returns
\* false leaves the held files as they were, so that a path rejected for
\* its ending does not keep a later path from being accepted.
C10_AtMostOneTrace ==
  /\ [](Len(traces_) <= 1)
  /\ [][last_add'.called =>
          /\ add_ret' = last_add'.ret
          /\ add_ret' <=> (traces_ = <<>> /\ EndsInEtl(last_add'.path))
          /\ add_ret' => traces_' = <<last_add'.path>>
          /\ ~add_ret' => traces_' = traces_
       ]_vars

\* A path of a wrong ending was rejected while no file was held, and the
\* next call, of a path that ends in ".etl", was accepted and is the one
\* file held.
C10_Witness ==
  /\ prior_add.called
  /\ ~prior_add.ret
  /\ ~EndsInEtl(prior_add.path)
  /\ last_add.called
  /\ add_ret
  /\ traces_ = <<last_add.path>>
  /\ Len(last_add.path) > 4

\* ------------------------------------------------------------------------
\* Properties of Parse (specification SpecParse).
\* ------------------------------------------------------------------------

\* C11: whenever Parse has returned, by any of its paths (no trace file,
\* OpenTrace failed, ProcessTrace failed, normal end), event_callback_ is
\* null and first_event_system_ts_, first_event_raw_ts_ and perf_period_
\* are 0; the entry assertions of Parse held at every call of Parse; and a
\* record reaches the callback only while event_callback_ is set by a Parse
\* that has not returned.
C11_ParseClearsState ==
  /\ [](parse_pc = "idle" =>
          /\ ~event_callback_
          /\ first_event_system_ts_ = 0
          /\ first_event_raw_ts_ = 0
          /\ perf_period_ = ZeroPeriod)
  /\ []entry_ok
  /\ [][delivered' # delivered /\ delivered' # <<>> =>
          parse_pc = "processing" /\ event_callback_]_vars

\* A Parse whose ProcessTrace failed after a record was delivered has
\* returned: first_event_raw_ts_, which its first record had set, is 0.
C11_Witness ==
  /\ parse_pc = "idle"
  /\ parse_exit = "ProcessTrace failed"
  /\ delivered # <<>>
  /\ emitted[1].raw_ts # 0
  /\ first_event_raw_ts_ = 0

\* The step hands a record that decodes to the callback.
Delivers ==
  /\ parse_pc = "processing"
  /\ Len(emitted') = Len(emitted) + 1
  /\ Len(delivered') = Len(delivered) + 1

\* trunc(ticks * P) for the period P = 10000000 / PerfFreq of the header.
PeriodsOf(ticks, header) ==
  (ticks * kPerfPeriodMultiplier) \div header.PerfFreq

\* C12: within one Parse every event delivered to the callback carries the
\* timestamp T0_system + trunc((Traw - R) * P), with T0_system and P from
\* the header of the trace and R the raw timestamp of the first record the
\* reader emitted in this Parse, whether that record decodes or not and
\* whatever its value, 0 included.
C12_TimestampFromFirstRecord ==
  [][Delivers =>
       delivered'[Len(delivered')].timestamp =
         trace_header.StartTime
           + PeriodsOf(emitted'[Len(emitted')].raw_ts - emitted'[1].raw_ts,
                       trace_header)
    ]_vars

\* The positions in emitted of the records that decode.
Decoding == {i \in 1 .. Len(emitted) : emitted[i].decodes}

\* C13: within one Parse the events the callback has received are the
\* records emitted so far that decode, one event for each, in the order of
\* emission; and the callback receives the event of a record in the step
\* that processes that record, before the next record is processed.
C13_DeliveredInOrder ==
  /\ [](/\ Len(delivered) = Cardinality(Decoding)
         /\ \A k \in 1 .. Len(delivered) :
              /\ delivered[k].of_record \in Decoding
              /\ Cardinality({i \in Decoding :
                                i <= delivered[k].of_record}) = k
              /\ delivered[k].header =
                   Header(emitted[delivered[k].of_record]))
  /\ [][delivered' # delivered /\ delivered' # <<>> =>
          /\ Len(emitted') = Len(emitted) + 1
          /\ Len(delivered') = Len(delivered) + 1
          /\ SubSeq(delivered', 1, Len(delivered)) = delivered
          /\ delivered'[Len(delivered')].of_record = Len(emitted')
       ]_vars

\* Three records were emitted, the second one did not decode, and the
\* callback has received the events of the first and of the third.
C13_Witness ==
  /\ Len(emitted) = 3
  /\ ~emitted[2].decodes
  /\ Len(delivered) = 2
  /\ delivered[1].of_record = 1
  /\ delivered[2].of_record = 3
  /\ delivered[1].header # delivered[2].header

\* The positions up to j of the emitted records whose raw timestamp is not
\* 0, decoding or not.
Stamped(j) == {i \in 1 .. j : emitted[i].raw_ts # 0}

\* The raw timestamp from which the record at position j is measured.
Origin(j) ==
  IF Stamped(j) = {} THEN 0
  ELSE emitted[CHOOSE i \in Stamped(j) : \A h \in Stamped(j) : i <= h].raw_ts

\* C14: a record that does not decode reaches no callback and produces no
\* event, and the parse goes on: the records that decode after it are
\* delivered, each with the header of its record and with a timestamp that
\* depends on the raw timestamps of the records emitted before it but not
\* on whether those records decoded.
C14_DroppedRecordChangesNothing ==
  /\ [](/\ Len(delivered) = Cardinality(Decoding)
         /\ \A k \in 1 .. Len(delivered) :
              LET j == delivered[k].of_record
              IN /\ emitted[j].decodes
                 /\ delivered[k].header = Header(emitted[j])
                 /\ delivered[k].timestamp =
                      trace_header.StartTime
                        + PeriodsOf(emitted[j].raw_ts - Origin(j),
                                    trace_header))
  /\ [][(Len(emitted') = Len(emitted) + 1
           /\ ~emitted'[Len(emitted')].decodes) =>
          /\ delivered' = delivered
          /\ parse_pc' = "processing"
          /\ event_callback_'
          /\ first_event_raw_ts_' =
               FirstEventRawTs(first_event_raw_ts_,
                               [emitted'[Len(emitted')]
                                  EXCEPT !.decodes = TRUE])
       ]_vars

\* The first record, of a raw timestamp other than 0, did not decode, and
\* the event of a later record of a greater raw timestamp was delivered.
C14_Witness ==
  /\ Len(emitted) >= 2
  /\ ~emitted[1].decodes
  /\ emitted[1].raw_ts # 0
  /\ delivered # <<>>
  /\ emitted[delivered[1].of_record].raw_ts > emitted[1].raw_ts
  /\ delivered[1].timestamp > trace_header.StartTime

\* ------------------------------------------------------------------------
\* Properties of wmain (specification SpecMain).
\* ------------------------------------------------------------------------

\* C15: when OpenTrace fails or ProcessTrace returns an error status
\* during Parse, the program exits with a status other than 0; it exits
\* with 0 only when every path was accepted and the reader ran to its end
\* (a run without any path counted as such).
C15_ReaderFailureExitCode ==
  main_pc = "exited" =>
    /\ parse_exit \in {"OpenTrace failed", "ProcessTrace failed"} =>
         exit_code # 0
    /\ exit_code = 0 => parse_exit \in {"normal end", "no source"}

\* ------------------------------------------------------------------------
\* Properties of CurrentState (specification SpecState).
\* ------------------------------------------------------------------------

\* The header has a field of this name that is a string of this text.
HeaderSays(event, name, texts) ==
  /\ name \in DOMAIN event.header
  /\ event.header[name].kind = "string"
  /\ event.header[name].text \in texts

\* The event is an Image/Load, an Image/DCStart or an Image/Unload.
IsLoadEvent(event) ==
  /\ HeaderSays(event, "category", {"Image"})
  /\ HeaderSays(event, "operation", {"Load", "DCStart"})

IsUnloadEvent(event) ==
  /\ HeaderSays(event, "category", {"Image"})
  /\ HeaderSays(event, "operation", {"Unload"})

\* C16: OnEvent leaves the image map as it was for every event that is not
\* an Image/Load, Image/DCStart or Image/Unload: Image/KernelBase,
\* Image/DCEnd, StackWalk/Stack, the events of other categories, and the
\* events whose header has no string category or no string operation.
C16_OtherEventsLeaveMap ==
  [][(last_event' # NoEvent
       /\ ~IsLoadEvent(last_event') /\ ~IsUnloadEvent(last_event')) =>
      pid_to_images' = pid_to_images]_vars

\* The last event was a Process/Load with the complete payload of an image
\* event, and the map holds an image but none at the base of that payload.
C16_Witness ==
  /\ HeaderSays(last_event, "category", {"Process"})
  /\ HeaderSays(last_event, "operation", {"Load"})
  /\ "ModuleSize" \in DOMAIN last_event.payload
  /\ Live(pid_to_images) # {}
  /\ ~IsLive(pid_to_images, <<kPid, 1>>)

\* The event carries what OnImageLoad reads: ModuleSize and BaseAddress as
\* unsigned integers of 32 or 64 bits, ImageCheckSum and TimeDateStamp as
\* unsigned integers, ImageFileName as a wide string, and process_id in the
\* header.
CarriesImageFields(event) ==
  /\ \A name \in {"ModuleSize", "BaseAddress", "ImageCheckSum",
                   "TimeDateStamp"} :
       /\ name \in DOMAIN event.payload
       /\ event.payload[name].kind \in UnsignedKinds
  /\ "ImageFileName" \in DOMAIN event.payload
  /\ event.payload["ImageFileName"].kind = "wstring"
  /\ "process_id" \in DOMAIN event.header
  /\ event.header["process_id"].kind \in UnsignedKinds

\* The entry of the image map the event names: the process_id of its
\* header and the BaseAddress of its payload.
EntryOf(event) ==
  <<event.header["process_id"].value, event.payload["BaseAddress"].value>>

\* The image the payload describes.
ImageDescribed(payload) ==
  [size |-> payload["ModuleSize"].value,
   checksum |-> payload["ImageCheckSum"].value,
   timestamp |-> payload["TimeDateStamp"].value,
   filename |-> payload["ImageFileName"].text]

\* C17: after OnEvent processes an Image/Load or Image/DCStart event that
\* carries ModuleSize, ImageCheckSum, TimeDateStamp, ImageFileName,
\* BaseAddress and the process_id of the header, the image map holds at
\* (header process_id, BaseAddress) the image the payload describes, for
\* the 32-bit and for the 64-bit kind of ModuleSize and BaseAddress.
C17_LoadEventSetsEntry ==
  [][(IsLoadEvent(last_event') /\ CarriesImageFields(last_event')) =>
      /\ IsLive(pid_to_images', EntryOf(last_event'))
      /\ ImageAt(pid_to_images', EntryOf(last_event')) =
           ImageDescribed(last_event'.payload)]_vars

\* The part of C17 that holds: the same for the events whose ModuleSize,
\* ImageCheckSum and TimeDateStamp are of the 32-bit kind.
C17_LoadEventOf32BitSetsEntry ==
  [][(/\ IsLoadEvent(last_event')
      /\ CarriesImageFields(last_event')
      /\ last_event'.payload["ModuleSize"].kind = "uint") =>
      /\ IsLive(pid_to_images', EntryOf(last_event'))
      /\ ImageAt(pid_to_images', EntryOf(last_event')) =
           ImageDescribed(last_event'.payload)]_vars

\* The last event was an Image/DCStart of a 32-bit trace for the other
\* process, and the map holds its image under the process_id of the header.
C17_Witness32Bit ==
  /\ IsLoadEvent(last_event)
  /\ HeaderSays(last_event, "operation", {"DCStart"})
  /\ CarriesImageFields(last_event)
  /\ last_event.payload["ModuleSize"].kind = "uint"
  /\ EntryOf(last_event) = <<kOtherPid, 1>>
  /\ IsLive(pid_to_images, <<kOtherPid, 1>>)

\* The event lacks a field the sink reads for it, or holds it with a kind
\* that is no unsigned integer (no wide string, for ImageFileName).
LacksImageField(event) ==
  \/ IsLoadEvent(event) /\ ~CarriesImageFields(event)
  \/ /\ IsUnloadEvent(event)
     /\ \/ "BaseAddress" \notin DOMAIN event.payload
        \/ event.payload["BaseAddress"].kind \notin UnsignedKinds
        \/ "process_id" \notin DOMAIN event.header
        \/ event.header["process_id"].kind \notin UnsignedKinds

\* C18: when an Image/Load, Image/DCStart or Image/Unload event lacks a
\* field the sink reads for it, or has it with the wrong kind (a version-0
\* Image/Load without ImageCheckSum and TimeDateStamp, say), OnEvent returns
\* with the image map and the symbol cache as they were, and the event
\* after it is processed as usual: a complete load that follows puts its
\* image in the map and a complete unload that follows removes its entry.
C18_IncompleteEventIgnored ==
  [][/\ LacksImageField(last_event') =>
          /\ pid_to_images' = pid_to_images
          /\ symbol_cache' = symbol_cache
          /\ enum_calls' = enum_calls
     /\ (/\ prior_dropped'
         /\ IsLoadEvent(last_event')
         /\ ImageLoadIsComplete(last_event')) =>
          /\ IsLive(pid_to_images', EntryOf(last_event'))
          /\ ImageAt(pid_to_images', EntryOf(last_event')) =
               ImageDescribed(last_event'.payload)
     /\ (/\ prior_dropped'
         /\ IsUnloadEvent(last_event')
         /\ ImageUnloadIsComplete(last_event')) =>
          ~IsLive(pid_to_images', EntryOf(last_event'))]_vars

\* An incomplete image event was dropped, and the complete Image/Load after
\* it put its image at an entry that was free, in a map that held another
\* image.
C18_Witness ==
  /\ prior_dropped
  /\ IsLoadEvent(last_event)
  /\ ImageLoadIsComplete(last_event)
  /\ IsLive(pid_to_images, EntryOf(last_event))
  /\ Live(prior_images) # {}
  /\ ~IsLive(prior_images, EntryOf(last_event))

\* The event carries what OnImageUnload reads.
CarriesUnloadFields(event) ==
  /\ "BaseAddress" \in DOMAIN event.payload
  /\ event.payload["BaseAddress"].kind \in UnsignedKinds
  /\ "process_id" \in DOMAIN event.header
  /\ event.header["process_id"].kind \in UnsignedKinds

\* The step is an Image/Unload with the BaseAddress and the process_id of
\* the Image/Load or Image/DCStart that OnEvent processed right before it.
UnloadAfterLoad ==
  /\ IsLoadEvent(last_event) /\ CarriesImageFields(last_event)
  /\ IsUnloadEvent(last_event') /\ CarriesUnloadFields(last_event')
  /\ EntryOf(last_event') = EntryOf(last_event)

\* After an Image/Unload the map has no entry at (process_id, BaseAddress)
\* and every other entry is as it was.
UnloadRemovesEntry ==
  (IsUnloadEvent(last_event') /\ CarriesUnloadFields(last_event')) =>
    /\ ~IsLive(pid_to_images', EntryOf(last_event'))
    /\ SameExcept(pid_to_images, pid_to_images', {EntryOf(last_event')})

\* C19 as stated: an Image/Load followed by an Image/Unload with the same
\* process_id and BaseAddress leaves the entries of the map as they were
\* before the load.  Stated for the loads of a 32-bit trace.
C19_Original ==
  [][(UnloadAfterLoad /\ last_event.payload["ModuleSize"].kind = "uint") =>
       SameExcept(prior_images, pid_to_images', {})]_vars

\* C19, amended: after an Image/Unload with BaseAddress B and process_id p
\* the map has no entry at (p, B) and every other entry is unchanged; an
\* Image/Load followed by an Image/Unload with the same p and B leaves the
\* entries of the map as they were before the load when the map had no
\* entry at (p, B) before the load, and otherwise as they were apart from
\* the entry at (p, B), which is gone.
C19_UnloadEventRemovesEntry ==
  [][/\ UnloadRemovesEntry
     /\ UnloadAfterLoad =>
          /\ SameExcept(prior_images, pid_to_images', {EntryOf(last_event)})
          /\ ~IsLive(pid_to_images', EntryOf(last_event))
          /\ ~IsLive(prior_images, EntryOf(last_event)) =>
               SameExcept(prior_images, pid_to_images', {})]_vars

\* An Image/Unload removed the image that the Image/Load before it had put
\* at an entry that was free, while the map held another image, which is
\* still there.
C19_Witness ==
  /\ IsUnloadEvent(last_event) /\ CarriesUnloadFields(last_event)
  /\ IsLive(prior_images, EntryOf(last_event))
  /\ ~IsLive(pid_to_images, EntryOf(last_event))
  /\ Live(pid_to_images) # {}
  /\ prior_images[EntryOf(last_event)[1]]
       [EntryOf(last_event)[2]].size = 3

\* The event is a StackWalk/Stack that carries EventTimeStamp, StackProcess
\* and StackThread as unsigned integers and Stack as an array.
IsStackEvent(event) ==
  /\ HeaderSays(event, "category", {"StackWalk"})
  /\ HeaderSays(event, "operation", {"Stack"})
  /\ \A name \in {"EventTimeStamp", "StackProcess", "StackThread"} :
       /\ name \in DOMAIN event.payload
       /\ event.payload[name].kind \in UnsignedKinds
  /\ "Stack" \in DOMAIN event.payload
  /\ event.payload["Stack"].kind = "array"

\* The Stack array of the event.
StackOf(event) == event.payload["Stack"].elements

\* Every element of the array is an unsigned integer.
ValidStack(stack) ==
  \A i \in 1 .. Len(stack) : stack[i].kind \in UnsignedKinds

\* The number of elements before the first one that is no unsigned
\* integer.
ValidPrefixLen(stack) ==
  IF ValidStack(stack) THEN Len(stack)
  ELSE (CHOOSE i \in 1 .. Len(stack) :
          /\ stack[i].kind \notin UnsignedKinds
          /\ \A j \in 1 .. (i - 1) : stack[j].kind \in UnsignedKinds) - 1

\* The ResolveSymbol calls for the first n elements of the array of the
\* event, in array order, with the StackProcess of the payload as pid.
CallsFor(event, n) ==
  [i \in 1 .. n |->
     <<event.payload["StackProcess"].value, StackOf(event)[i].value>>]

\* C20: for a StackWalk/Stack event the sink calls
\* ResolveSymbol(StackProcess, address) once per element of the Stack array
\* in array order; when an element is not of an unsigned-integer kind the
\* event is dropped as a whole: the image map and the symbol cache after
\* the event are those before the event.
C20_StackWalkResolvesOrDrops ==
  [][IsStackEvent(last_event') =>
       /\ ValidStack(StackOf(last_event')) =>
            last_call'.resolved =
              CallsFor(last_event', Len(StackOf(last_event')))
       /\ ~ValidStack(StackOf(last_event')) =>
            /\ pid_to_images' = pid_to_images
            /\ symbol_cache' = symbol_cache]_vars

\* What OnStackWalk does: it calls ResolveSymbol for the elements before
\* the first one that is no unsigned integer, in array order, and leaves
\* the image map as it was.
C20_StackWalkResolvesPrefix ==
  [][IsStackEvent(last_event') =>
       /\ last_call'.resolved =
            CallsFor(last_event', ValidPrefixLen(StackOf(last_event')))
       /\ pid_to_images' = pid_to_images]_vars

\* A StackWalk/Stack event whose second element is no unsigned integer
\* left in the symbol cache the symbols of the image of its first element.
C20_WitnessPartialDrop ==
  /\ IsStackEvent(last_event)
  /\ Len(StackOf(last_event)) = 2
  /\ ValidPrefixLen(StackOf(last_event)) = 1
  /\ last_call.op = "OnStackWalk"
  /\ Len(last_call.resolved) = 1
  /\ DOMAIN symbol_cache # {}

\* ------------------------------------------------------------------------
\* More properties of the image map (specification Spec).
\* ------------------------------------------------------------------------

\* C26: whenever FindImage(pid, a, &out) returns not-found (unknown pid,
\* empty bucket, address below every base, address at or past the end of
\* the predecessor image) the out-parameter image_base_address keeps the
\* value it had before the call, whatever that value was; it is written
\* only when an image is returned.
C26_NotFoundKeepsOutParameter ==
  /\ \A pid \in Pids, a \in Addresses, prior \in PriorValues :
       LET result == FindImage(pid_to_images, pid, a, prior)
       IN result.ret.null => result.image_base_address = prior
  /\ (last_call.op = "FindImage" /\ ~last_call.hit) =>
       image_base_address \in PriorValues

\* A FindImage call on an address at or past the end of its predecessor
\* image returned not-found and the caller's image_base_address still
\* holds 7, which is the base of no image.
C26_Witness ==
  /\ last_call.op = "FindImage"
  /\ ~last_call.hit
  /\ find_ret.null
  /\ image_base_address = 7
  /\ \E b \in LiveBases(last_call.pid) : b <= last_call.address

\* FindImage returns not-found for every address of a process whose bucket
\* is empty.
EmptyBucketFindsNothing ==
  \A pid \in DOMAIN pid_to_images :
    DOMAIN pid_to_images[pid] = {} =>
      \A a \in Addresses, prior \in PriorValues :
        FindImage(pid_to_images, pid, a, prior).ret.null

\* A step keeps every bucket, and a bucket it creates is the bucket of the
\* pid of a LoadImage call.
BucketsGrowByLoadImage ==
  /\ DOMAIN pid_to_images \subseteq DOMAIN pid_to_images'
  /\ \A pid \in DOMAIN pid_to_images' \ DOMAIN pid_to_images :
       last_call'.op = "LoadImage" /\ last_call'.pid = pid

\* C27: the set of pids that have a bucket in the image map only grows: a
\* bucket is created only by LoadImage for that pid, never by UnloadImage
\* or FindImage on an unknown pid, it is kept when its last image is
\* unloaded, and FindImage on an empty bucket returns not-found for every
\* address.
C27_BucketsOnlyGrow ==
  []EmptyBucketFindsNothing /\ [][BucketsGrowByLoadImage]_vars

\* The last image of a process was unloaded: its bucket is there and empty,
\* while the other process has no bucket.
C27_Witness ==
  /\ last_call.op = "UnloadImage"
  /\ last_call.hit
  /\ last_call.pid \in DOMAIN pid_to_images
  /\ DOMAIN pid_to_images[last_call.pid] = {}
  /\ DOMAIN pid_to_images # Pids

\* The live entry of pid with the greatest base that is not above the
\* address is the one at base.
GreatestBaseIs(pid, base, address) ==
  /\ base <= address
  /\ \A c \in LiveBases(pid) : c <= address => c <= base

\* C29: FindImage decides interval membership under unsigned arithmetic of
\* the width of an address without taking the end bound B + s modulo the
\* number of addresses: for a live entry at base B with size s where B + s
\* exceeds the greatest address, every address a with B <= a and a - B < s
\* whose greatest-base predecessor is B is reported as belonging to that
\* image.
C29_EndBoundDoesNotWrap ==
  \A pid \in Pids : \A b \in LiveBases(pid) :
    LET s == pid_to_images[pid][b].size
    IN b + s > AddrMod - 1 =>
         \A a \in Addresses :
           (a - b < s /\ GreatestBaseIs(pid, b, a)) => ReturnsEntry(pid, a, b)

\* FindImage was called on the base of a live image whose end B + s is past
\* the greatest address, and returned not-found.
C29_WitnessWrappedEnd ==
  /\ last_call.op = "FindImage"
  /\ ~last_call.hit
  /\ IsLive(pid_to_images, <<last_call.pid, last_call.address>>)
  /\ pid_to_images[last_call.pid][last_call.address].size >= 1
  /\ last_call.address + pid_to_images[last_call.pid][last_call.address].size
       > AddrMod - 1

\* ------------------------------------------------------------------------
\* The trace handles of ETWParser::Parse (specification SpecParse).
\* ------------------------------------------------------------------------

\* No element occurs twice in the sequence.
NoDuplicates(seq) ==
  \A i \in 1 .. Len(seq), j \in 1 .. Len(seq) : i # j => seq[i] # seq[j]

\* When Parse is not running no trace handle is open; while ProcessTrace
\* runs the open handles are those Parse keeps in its vector.
HandlesAccounted ==
  /\ parse_pc = "idle" => (open_traces = {} /\ handles = <<>>)
  /\ parse_pc = "processing" => Range(handles) = open_traces

\* The CloseTrace calls of a step: one for each handle that was open, and
\* none for another one.
ClosesWhatWasOpen ==
  /\ NoDuplicates(closed')
  /\ Range(closed') = open_traces
  /\ open_traces' = {}

\* The step ends with Parse returned: it is no AddTraceFile call and Parse
\* is not in ProcessTrace after it.
ParseReturns == parse_pc' = "idle" /\ ~last_add'.called

\* C24: every trace handle Parse opens is closed exactly once before Parse
\* returns, on every exit path (a failed OpenTrace, a ProcessTrace error,
\* normal completion); no handle is open after Parse returns and no handle
\* is closed that was not opened.
C24_HandlesClosedOnce ==
  /\ []HandlesAccounted
  /\ [][ParseReturns => ClosesWhatWasOpen]_vars

\* Parse returned after a ProcessTrace error: it made one CloseTrace call
\* and no handle is open.
C24_Witness ==
  /\ parse_pc = "idle"
  /\ parse_exit = "ProcessTrace failed"
  /\ Len(closed) = 1
  /\ open_traces = {}

\* ------------------------------------------------------------------------
\* Properties of base::MultiCallback (specification SpecCallback).
\* ------------------------------------------------------------------------

\* The calls of the first n callbacks of the vector, in vector order, each
\* with the arguments of the invocation.
CallsOfFirst(n) ==
  [i \in 1 .. n |-> [callback |-> mc_callbacks[i], args |-> mc_args]]

\* C25: invoking the function MultiCallback(callbacks) returned with args
\* invokes every callback of the vector exactly once, in vector order, each
\* with the same args; with an empty vector it invokes nothing.
C25_EveryCallbackOnceInOrder ==
  /\ mc_pc = "running" => mc_calls = CallsOfFirst(mc_index - 1)
  /\ (mc_pc = "ready" /\ mc_index > 0) =>
       mc_calls = CallsOfFirst(Len(mc_callbacks))

\* An invocation with two arguments of a vector of two different callbacks
\* followed by the first one again has returned, after three calls.
C25_Witness ==
  /\ mc_pc = "ready"
  /\ mc_index > 0
  /\ mc_callbacks = <<"Method1", "Method2", "Method1">>
  /\ mc_args = <<8, 42>>
  /\ Len(mc_calls) = 3

\* An invocation of an empty vector has returned without a call.
C25_WitnessEmptyVector ==
  /\ mc_pc = "ready"
  /\ mc_index > 0
  /\ mc_callbacks = <<>>
  /\ mc_calls = <<>>

\* ------------------------------------------------------------------------
\* Properties of DbghelpWrapper (specification SpecDbghelp).
\* ------------------------------------------------------------------------

\* C28: a module that EnumerateSymbols loaded in the DbgHelp session
\* (SymLoadModuleEx at base address 1024) is unloaded before EnumerateSymbols
\* returns, on every return path, a failed symbol enumeration included:
\* after any sequence of EnumerateSymbols calls no module is loaded in the
\* session.
C28_NoModuleStaysLoaded == dbg_modules = {}

\* EnumerateSymbols returned after a failed SymEnumSymbols and the module
\* is still loaded at the default base address.
C28_WitnessFailedEnumeration ==
  /\ dbg_ret.path = "SymEnumSymbols failed"
  /\ kDefaultBaseAddress \in LoadedBases(dbg_modules)

\* ------------------------------------------------------------------------
\* Properties of the payload decoders (specification SpecDecoder).
\* ------------------------------------------------------------------------

\* The bytes of the payload at an offset; -1 where the payload has none.
BytesAt(offset, size) ==
  [i \in 1 .. size |->
     IF offset + i <= Len(payload_decoder.buffer.bytes)
     THEN payload_decoder.buffer.bytes[offset + i]
     ELSE -1]

\* The last call was DecodeSID and it returned true.
SIDDecoded == dec_call.op = "DecodeSID" /\ dec_ret = "true"

\* The size of the pointer of the last call.
PointerSize == IF dec_call.is_64_bit THEN 8 ELSE 4

\* The bytes between the cursor before the last call and the SID body.
TokenUserSize == IF dec_call.is_64_bit THEN 8 + 4 + 4 ELSE 4 + 4

\* The offset of the SID body of the last call.
SIDBodyAt == dec_call.before.position + TokenUserSize

\* Byte 1 of that SID body.
SIDSubAuthorityCount == BytesAt(SIDBodyAt + 1, 1)[1]

\* The struct that a successful DecodeSID is to append.
ExpectedSID ==
  DecodedStruct(
    <<[name |-> "PSid",
       value |-> DecodedValue(IF dec_call.is_64_bit THEN "ULongValue"
                                                    ELSE "UIntValue",
                              BytesAt(dec_call.before.position, PointerSize),
                              <<>>)],
      [name |-> "Attributes",
       value |-> DecodedValue("UIntValue",
                              BytesAt(dec_call.before.position + PointerSize,
                                      4),
                              <<>>)],
      [name |-> "Sid",
       value |-> DecodedValue("ArrayValue",
                              BytesAt(SIDBodyAt,
                                      4 * SIDSubAuthorityCount + 8),
                              <<>>)]>>)

\* C21: when DecodeSID succeeds it has appended to the output struct one
\* struct field holding exactly PSid (a u64 on 64 bits, a u32 on 32 bits),
\* Attributes (a u32) and Sid (an array of 4*n + 8 bytes, n being byte 1 of
\* the SID body), in that order, and the cursor has advanced by
\* 8 + 4 + 4 + (4*n + 8) bytes on 64 bits and by 4 + 4 + (4*n + 8) bytes on
\* 32 bits: the padding word is consumed on 64 bits only and is no field of
\* the result.
C21_SIDLayout ==
  SIDDecoded =>
    /\ dec_fields =
         Append(dec_call.fields_before,
                [name |-> "UserSID", value |-> ExpectedSID])
    /\ payload_decoder.position =
         dec_call.before.position + TokenUserSize
           + 4 * SIDSubAuthorityCount + 8

\* A SID with two sub-authorities was decoded on 64 bits after another
\* field of the payload.
C21_Witness ==
  /\ SIDDecoded
  /\ dec_call.is_64_bit
  /\ dec_call.before.position = 8
  /\ SIDSubAuthorityCount = 2
  /\ payload_decoder.position = 8 + 16 + 16

\* A SID with one sub-authority was decoded on 32 bits.
SIDDecodedOn32Bits ==
  /\ SIDDecoded
  /\ ~dec_call.is_64_bit
  /\ SIDSubAuthorityCount = 1
  /\ payload_decoder.position = dec_call.before.position + 8 + 12

\* The last call was DecodeTimeZoneInformation.
TimeZoneCalled == dec_call.op = "DecodeTimeZoneInformation"

\* The offset of the TIME_ZONE_INFORMATION of the last call.
TimeZoneAt == dec_call.before.position

\* The i16 at an offset of the payload.
ExpectedShort(name, offset) ==
  [name |-> name,
   value |-> DecodedValue("ShortValue", BytesAt(offset, 2), <<>>)]

\* The i32 at an offset of the payload.
ExpectedInt(name, offset) ==
  [name |-> name,
   value |-> DecodedValue("IntValue", BytesAt(offset, 4), <<>>)]

\* The SYSTEMTIME at an offset of the payload.
ExpectedSystemTime(name, offset) ==
  [name |-> name,
   value |-> DecodedStruct(
     <<ExpectedShort("wYear", offset),
       ExpectedShort("wMonth", offset + 2),
       ExpectedShort("wDayOfWeek", offset + 4),
       ExpectedShort("wDay", offset + 6),
       ExpectedShort("wHour", offset + 8),
       ExpectedShort("wMinute", offset + 10),
       ExpectedShort("wSecond", offset + 12),
       ExpectedShort("wMilliseconds", offset + 14)>>)]

\* Code unit i of the 32 code units at an offset of the payload.
NameUnit(offset, i) ==
  BytesAt(offset + 2 * (i - 1), 2)[1]
    + 256 * BytesAt(offset + 2 * (i - 1), 2)[2]

\* The number of code units before the first NUL of the 32 at an offset.
NameLength(offset) ==
  IF \E i \in 1 .. 32 : NameUnit(offset, i) = 0
  THEN (CHOOSE i \in 1 .. 32 :
          /\ NameUnit(offset, i) = 0
          /\ \A j \in 1 .. i - 1 : NameUnit(offset, j) # 0) - 1
  ELSE 32

\* The name of 32 code units at an offset of the payload.
ExpectedName(name, offset) ==
  [name |-> name,
   value |-> DecodedValue("WStringValue",
                          [i \in 1 .. NameLength(offset) |->
                             NameUnit(offset, i)],
                          <<>>)]

\* The struct that a successful DecodeTimeZoneInformation is to append.
ExpectedTimeZone ==
  DecodedStruct(
    <<ExpectedInt("Bias", TimeZoneAt),
      ExpectedName("StandardName", TimeZoneAt + 4),
      ExpectedSystemTime("StandardDate", TimeZoneAt + 68),
      ExpectedInt("StandardBias", TimeZoneAt + 84),
      ExpectedName("DaylightName", TimeZoneAt + 88),
      ExpectedSystemTime("DaylightDate", TimeZoneAt + 152),
      ExpectedInt("DaylightBias", TimeZoneAt + 168)>>)

\* C22: when DecodeTimeZoneInformation succeeds it has appended one struct
\* with the fields Bias, StandardName, StandardDate, StandardBias,
\* DaylightName, DaylightDate and DaylightBias in that order, each date a
\* struct of the eight i16 fields wYear .. wMilliseconds, and the cursor has
\* advanced by exactly 172 bytes: each name of 32 code units takes 64 bytes
\* wherever its first NUL is.  With fewer than 172 bytes remaining it fails.
C22_TimeZoneLayout ==
  TimeZoneCalled =>
    /\ dec_ret = "true" =>
         /\ dec_fields =
              Append(dec_call.fields_before,
                     [name |-> "TimeZoneInformation",
                      value |-> ExpectedTimeZone])
         /\ payload_decoder.position = TimeZoneAt + 172
    /\ RemainingBytes(dec_call.before) < 172 => dec_ret = "false"

\* A time zone was decoded whose standard name ends at a NUL that other
\* characters follow, and whose daylight name is empty.
C22_Witness ==
  /\ TimeZoneCalled
  /\ dec_ret = "true"
  /\ NameLength(TimeZoneAt + 4) = 3
  /\ NameUnit(TimeZoneAt + 4, 5) # 0
  /\ NameLength(TimeZoneAt + 88) = 0
  /\ payload_decoder.position = TimeZoneAt + 172

\* DecodeTimeZoneInformation failed on a payload that is one byte short.
TimeZoneOneByteShort ==
  /\ TimeZoneCalled
  /\ RemainingBytes(dec_call.before) = 171
  /\ dec_ret = "false"

\* The last call was DecodeRawETWKernelPayload for the PerfInfo event of
\* opcode 58 and version 2, with a payload of size 0.
EmptyDebuggerEnabledDecoded ==
  /\ dec_call.op = "DecodeRawETWKernelPayload"
  /\ dec_call.event =
       [provider |-> kPerfInfoProviderId, version |-> kVersion2,
        opcode |-> kPerfInfoDebuggerEnabledOpcode]
  /\ payload_decoder.length = 0

\* C23: decoding the event of provider PerfInfo, opcode 58 and version 2
\* with a payload of size 0 succeeds, with the category "PerfInfo", the
\* operation "DebuggerEnabled" and an empty struct, whether the payload
\* pointer is null or points to a buffer; no byte of the payload is read.
C23_EmptyPayloadDecodes ==
  EmptyDebuggerEnabledDecoded =>
    /\ dec_ret = "true"
    /\ dec_category = "PerfInfo"
    /\ dec_operation = "DebuggerEnabled"
    /\ dec_fields = <<>>
    /\ payload_decoder.reads = {}
    /\ payload_decoder.position = 0

\* The event was decoded from a null payload.
C23_Witness ==
  /\ EmptyDebuggerEnabledDecoded
  /\ payload_decoder.buffer.null
  /\ dec_ret = "true"
  /\ dec_operation = "DebuggerEnabled"

\* The event was decoded from a buffer that holds a byte, with the size 0.
EmptyDebuggerEnabledFromBuffer ==
  /\ EmptyDebuggerEnabledDecoded
  /\ payload_decoder.buffer = PayloadOf(kPerfInfoDebuggerEnabledPayloadV2)
  /\ dec_ret = "true"

\* The last call was DecodeSID.
SIDCalled == dec_call.op = "DecodeSID"

\* The offsets of the bytes of the payload.
PayloadOffsets == 0 .. payload_decoder.length - 1

\* C30: DecodeSID reads no byte outside the payload.  With fewer than 24
\* bytes remaining it fails before it reads anything and adds no field to
\* the output struct.  Otherwise, on 32 and on 64 bits, the two bytes it
\* looks up (bytes 0 and 1 of the SID body) are among the remaining bytes
\* when it looks them up, and the output struct receives the SID field only
\* if the 4*n + 8 bytes of the body are all in the payload.
C30_SIDStaysInPayload ==
  SIDCalled =>
    /\ RemainingBytes(dec_call.before) < 24 =>
         /\ dec_ret = "false"
         /\ payload_decoder = dec_call.before
         /\ dec_call.peeked = {}
         /\ dec_fields = dec_call.fields_before
    /\ RemainingBytes(dec_call.before) >= 24 =>
         /\ dec_call.peeked = {SIDBodyAt, SIDBodyAt + 1}
         /\ dec_call.peeked \subseteq PayloadOffsets
    /\ payload_decoder.reads \subseteq PayloadOffsets
    /\ dec_fields # dec_call.fields_before =>
         SIDBodyAt + 4 * SIDSubAuthorityCount + 8 <= payload_decoder.length

\* DecodeSID was called on 64 bits with exactly 24 bytes remaining, of
\* which the last 8 are a SID body that announces one sub-authority: the
\* body does not fit and the output struct is as it was.
C30_Witness ==
  /\ SIDCalled
  /\ dec_call.is_64_bit
  /\ RemainingBytes(dec_call.before) = 24
  /\ SIDSubAuthorityCount = 1
  /\ dec_call.peeked = {SIDBodyAt, SIDBodyAt + 1}
  /\ dec_ret = "false"
  /\ dec_fields = dec_call.fields_before

\* DecodeSID was called with 23 bytes remaining.
SIDCalledBelowMinimalLength ==
  /\ SIDCalled
  /\ RemainingBytes(dec_call.before) = 23
  /\ dec_ret = "false"

====
